---- MODULE Spec2Model ----
(***************************************************************************)
(* Relish TLV codec (github.com/dadrian/relish): the tagged-varint length  *)
(* codec, the primitive and composite TLV readers and writers, and the     *)
(* reflection-driven Encoder/Decoder (Marshal/Unmarshal).                  *)
(*                                                                         *)
(* Bytes are integers 0..255, a byte slice is a sequence of bytes, an      *)
(* io.Reader over a byte slice (bytes.Reader) is the sequence of bytes not *)
(* yet read, and an io.Writer (bytes.Buffer) is the sequence written.      *)
(***************************************************************************)
EXTENDS Integers, Sequences, FiniteSets, TLC

VARIABLES
    op,     \* the operation called: "none" before the call
    arg,    \* its arguments
    res,    \* what it returned and what it left behind
    pc,     \* "idle" before the call, "done" after it
    bufPool,    \* the scratch-buffer pool: how many times each buffer lies in it
    made,       \* the number of buffers the pool's New has allocated
    collected,  \* the pooled buffers the garbage collector has taken
    staged,     \* for each buffer, the writes it holds since its last Reset
    frames,     \* for each encoder, its stack of composite-writer calls
    status,     \* for each encoder: "ready", "running", "ok" or "failed"
    acquired,   \* for each encoder, the GetBuffer calls it has made
    returned,   \* for each encoder, the PutBuffer calls it has made
    sink        \* for each encoder, the frames that reached its own io.Writer

codecVars == <<op, arg, res, pc>>

poolVars == <<bufPool, made, collected, staged, frames, status, acquired, returned, sink>>

vars == <<op, arg, res, pc, bufPool, made, collected, staged, frames, status, acquired,
          returned, sink>>

Min(a, b) == IF a < b THEN a ELSE b

Drop(s, k) == SubSeq(s, k + 1, Len(s))

Take(s, k) == SubSeq(s, 1, k)

\* k zero bytes: make([]byte, k)
Zeros(k) == [i \in 1..k |-> 0]

(***************************************************************************)
(* Errors.  Kind is the ErrorKind of a *relish.Error; "plain" is an error  *)
(* that is not a *relish.Error (errors.New, io.EOF, ...); "nil" is no      *)
(* error.                                                                  *)
(***************************************************************************)
NoErr == [Kind |-> "nil", Detail |-> ""]

RelishError(kind, detail) == [Kind |-> kind, Detail |-> detail]

PlainError(msg) == [Kind |-> "plain", Detail |-> msg]

ErrNotImplemented == RelishError("ErrNotImplementedKind", "not implemented")

errInvalidTypeID == PlainError("invalid type id (top bit set)")

ioEOF == PlainError("EOF")

ioErrUnexpectedEOF == PlainError("unexpected EOF")

(***************************************************************************)
(* internal/lengths.go: the tagged-varint length codec                     *)
(***************************************************************************)
MaxLen == 2147483647

SizeOfLen(n) ==
    IF n < 0 \/ n > MaxLen THEN -1
    ELSE IF n <= 127 THEN 1
    ELSE 4

\* EncodeLen with the second byte of the long form taken from bit 8, not bit 7
EncodeLenShift8(dst, n) ==
    IF n <= 127
    THEN [dst |-> [dst EXCEPT ![1] = (n * 2) % 256], n |-> 1]
    ELSE [dst |-> [dst EXCEPT ![1] = ((n % 128) * 2) + 1,
                              ![2] = (n \div 256) % 256,
                              ![3] = (n \div 32768) % 256,
                              ![4] = (n \div 8388608) % 256],
          n |-> 4]

\* EncodeLen(dst, n): dst after the call and the number of bytes written.
\* byte((n << 1) & 0xFE) is (2n) mod 256; u = uint32(n) is n for 0 <= n <= MaxLen.
EncodeLen(dst, n) ==
    IF n <= 127
    THEN [dst |-> [dst EXCEPT ![1] = (n * 2) % 256], n |-> 1]
    ELSE [dst |-> [dst EXCEPT ![1] = ((n % 128) * 2) + 1,
                              ![2] = (n \div 128) % 256,
                              ![3] = (n \div 32768) % 256,
                              ![4] = (n \div 8388608) % 256],
          n |-> 4]

\* DecodeLen(src): <<value, bytes consumed>>, <<-1, 0>> on malformed input.
DecodeLen(src) ==
    IF Len(src) = 0 THEN <<-1, 0>>
    ELSE IF src[1] % 2 = 0 THEN <<src[1] \div 2, 1>>
    ELSE IF Len(src) < 4 THEN <<-1, 0>>
    ELSE LET n == (src[1] \div 2) + src[2] * 128 + src[3] * 32768 + src[4] * 8388608
         IN  IF n < 0 \/ n > MaxLen THEN <<-1, 0>> ELSE <<n, 4>>

(***************************************************************************)
(* Readers.  A read returns [err, data, r]: the error, the bytes obtained  *)
(* and the reader after the call.                                          *)
(***************************************************************************)
\* (*bytes.Reader).Read into a buffer of k > 0 bytes
BytesReaderRead(r, k) ==
    IF Len(r) = 0
    THEN [n |-> 0, err |-> ioEOF, data |-> <<>>, r |-> r]
    ELSE [n |-> Min(k, Len(r)), err |-> NoErr,
          data |-> Take(r, Min(k, Len(r))), r |-> Drop(r, Min(k, Len(r)))]

\* io.ReadFull(r, buf) with len(buf) = k, on a bytes.Reader
IoReadFull(r, k) ==
    IF k = 0 THEN [err |-> NoErr, data |-> <<>>, r |-> r]
    ELSE IF Len(r) = 0 THEN [err |-> ioEOF, data |-> <<>>, r |-> r]
    ELSE IF Len(r) < k THEN [err |-> ioErrUnexpectedEOF, data |-> r, r |-> <<>>]
    ELSE [err |-> NoErr, data |-> Take(r, k), r |-> Drop(r, k)]

\* internal.ReadFull(r, buf): the loop, from offset off with the bytes got so far.
RECURSIVE ReadFullLoop(_, _, _)
ReadFullLoop(r, k, got) ==
    IF ~(Len(got) < k) THEN [err |-> NoErr, data |-> got, r |-> r]
    ELSE LET AfterRead(rd, acc) ==
                 IF rd.err.Kind # "nil"
                 THEN IF Len(acc) = k
                      THEN [err |-> NoErr, data |-> acc, r |-> rd.r]
                      ELSE [err |-> rd.err, data |-> acc, r |-> rd.r]
                 ELSE IF rd.n = 0
                 THEN [err |-> ioErrUnexpectedEOF, data |-> acc, r |-> rd.r]
                 ELSE ReadFullLoop(rd.r, k, acc)
             Got(rd) == AfterRead(rd, IF rd.n > 0 THEN got \o rd.data ELSE got)
         IN  Got(BytesReaderRead(r, k - Len(got)))

ReadFull(r, k) == ReadFullLoop(r, k, <<>>)

\* the iteration of ReadFull's loop without the test for a read that makes no progress
ReadFullIterationNoZeroTest(k, off, rd) ==
    LET Filled(o) ==
            IF rd.err.Kind # "nil"
            THEN [off |-> o, returned |-> TRUE, err |-> IF o = k THEN NoErr ELSE rd.err]
            ELSE [off |-> o, returned |-> ~(o < k), err |-> NoErr]
    IN  Filled(IF rd.n > 0 THEN off + rd.n ELSE off)

\* One iteration of the loop of internal.ReadFull on any io.Reader: buf has k bytes,
\* off of them are filled, and r.Read(buf[off:]) returns rd = [n, err] with
\* 0 <= n <= k - off.  The result is [off, returned, err]: the bytes filled, whether
\* ReadFull has returned, and the error it returned.
ReadFullIteration(k, off, rd) ==
    LET Filled(o) ==
            IF rd.err.Kind # "nil"
            THEN [off |-> o, returned |-> TRUE, err |-> IF o = k THEN NoErr ELSE rd.err]
            ELSE IF rd.n = 0
            THEN [off |-> o, returned |-> TRUE, err |-> ioErrUnexpectedEOF]
            ELSE [off |-> o, returned |-> ~(o < k), err |-> NoErr]
    IN  Filled(IF rd.n > 0 THEN off + rd.n ELSE off)

(***************************************************************************)
(* internal/tlv.go: type bytes, lengths                                    *)
(***************************************************************************)
IsVarSize(t) == t \in {14, 15, 16, 17, 18}

\* FixedSize(t): <<content bytes, ok>>
FixedSize(t) ==
    CASE t = 0 -> <<0, TRUE>>
      [] t = 1 -> <<1, TRUE>>
      [] t = 2 -> <<1, TRUE>>
      [] t = 3 -> <<2, TRUE>>
      [] t = 4 -> <<4, TRUE>>
      [] t = 5 -> <<8, TRUE>>
      [] t = 6 -> <<16, TRUE>>
      [] t = 7 -> <<1, TRUE>>
      [] t = 8 -> <<2, TRUE>>
      [] t = 9 -> <<4, TRUE>>
      [] t = 10 -> <<8, TRUE>>
      [] t = 11 -> <<16, TRUE>>
      [] t = 12 -> <<4, TRUE>>
      [] t = 13 -> <<8, TRUE>>
      [] t = 19 -> <<8, TRUE>>
      [] OTHER -> <<0, FALSE>>

\* A write returns [err, out]: the error and the bytes that reached the writer.
WriteType(t) ==
    IF t >= 128 THEN [err |-> errInvalidTypeID, out |-> <<>>]
    ELSE [err |-> NoErr, out |-> <<t>>]

\* the read of a type byte that lets every byte through
ReadTypeAnyByte(r) ==
    LET Got(rd) ==
            IF rd.err.Kind # "nil" THEN [err |-> rd.err, t |-> 0, r |-> rd.r]
            ELSE [err |-> NoErr, t |-> rd.data[1], r |-> rd.r]
    IN  Got(IoReadFull(r, 1))

\* ReadType(r): [err, t, r]
ReadType(r) ==
    LET Got(rd) ==
            IF rd.err.Kind # "nil" THEN [err |-> rd.err, t |-> 0, r |-> rd.r]
            ELSE IF rd.data[1] >= 128 THEN [err |-> errInvalidTypeID, t |-> 0, r |-> rd.r]
            ELSE [err |-> NoErr, t |-> rd.data[1], r |-> rd.r]
    IN  Got(IoReadFull(r, 1))

\* WriteLen(w, n): [err, out, n]
WriteLen(n) ==
    IF SizeOfLen(n) < 0
    THEN [err |-> PlainError("length out of range"), out |-> <<>>, n |-> 0]
    ELSE LET Encoded(e) == [err |-> NoErr, out |-> Take(e.dst, e.n), n |-> e.n]
         IN  Encoded(EncodeLen(Zeros(4), n))

\* ReadLen(r): [err, n, used, r]
ReadLen(r) ==
    LET Long(b3, n) ==
            IF n < 0
            THEN [err |-> PlainError("invalid length"), n |-> -1, used |-> 0, r |-> b3.r]
            ELSE [err |-> NoErr, n |-> n, used |-> 4, r |-> b3.r]
        Rest(b1, b3) ==
            IF b3.err.Kind # "nil" THEN [err |-> b3.err, n |-> -1, used |-> 0, r |-> b3.r]
            ELSE Long(b3, DecodeLen(b1.data \o b3.data)[1])
        First(b1) ==
            IF b1.err.Kind # "nil" THEN [err |-> b1.err, n |-> -1, used |-> 0, r |-> b1.r]
            ELSE IF b1.data[1] % 2 = 0
            THEN [err |-> NoErr, n |-> DecodeLen(b1.data)[1], used |-> 1, r |-> b1.r]
            ELSE Rest(b1, IoReadFull(b1.r, 3))
    IN  First(IoReadFull(r, 1))

(***************************************************************************)
(* Primitive TLVs (internal/tlv.go, internal/fixed.go).  A uint32 is kept  *)
(* as its two 16-bit halves [hi, lo], so that every 32-bit pattern on the  *)
(* wire has a value.                                                       *)
(***************************************************************************)
U32(n) == [hi |-> n \div 65536, lo |-> n % 65536]

\* binary.LittleEndian.PutUint32
PutUint32(v) == <<v.lo % 256, v.lo \div 256, v.hi % 256, v.hi \div 256>>

\* binary.LittleEndian.Uint32
Uint32(b) == [hi |-> b[3] + 256 * b[4], lo |-> b[1] + 256 * b[2]]

\* unicode/utf8.Valid, as the decoder and the encoder call it: every byte is the
\* lead byte of a well-formed encoding or one of the continuation bytes of one
Utf8Valid(s) ==
    LET IsCont(i) == i <= Len(s) /\ s[i] >= 128 /\ s[i] <= 191
        In(i, lo, hi) == i <= Len(s) /\ s[i] >= lo /\ s[i] <= hi
        Size(b) ==
            CASE b < 128 -> 1
              [] b >= 194 /\ b <= 223 -> 2
              [] b >= 224 /\ b <= 239 -> 3
              [] b >= 240 /\ b <= 244 -> 4
              [] OTHER -> 0
        WellFormedAt(i, b) ==
            CASE b < 128 -> TRUE
              [] b >= 194 /\ b <= 223 -> IsCont(i + 1)
              [] b = 224 -> In(i + 1, 160, 191) /\ IsCont(i + 2)
              [] (b >= 225 /\ b <= 236) \/ b = 238 \/ b = 239 -> IsCont(i + 1) /\ IsCont(i + 2)
              [] b = 237 -> In(i + 1, 128, 159) /\ IsCont(i + 2)
              [] b = 240 -> In(i + 1, 144, 191) /\ IsCont(i + 2) /\ IsCont(i + 3)
              [] b >= 241 /\ b <= 243 -> IsCont(i + 1) /\ IsCont(i + 2) /\ IsCont(i + 3)
              [] b = 244 -> In(i + 1, 128, 143) /\ IsCont(i + 2) /\ IsCont(i + 3)
              [] OTHER -> FALSE
    IN  \A i \in 1..Len(s) :
           IF IsCont(i)
           THEN \E j \in (i - 3)..(i - 1) : j >= 1 /\ ~IsCont(j) /\ i - j < Size(s[j])
           ELSE WellFormedAt(i, s[i])

\* Then(a, b): two writes in sequence to the same writer; b is not made when a fails.
Then(a, b) ==
    IF a.err.Kind # "nil" THEN [err |-> a.err, out |-> a.out]
    ELSE [err |-> b.err, out |-> a.out \o b.out]

Wrote(bytes) == [err |-> NoErr, out |-> bytes]

WriteBoolTLV(v) == Then(WriteType(1), Wrote(<<IF v THEN 255 ELSE 0>>))

\* the read that takes every content byte but 0x00 as true
ReadBoolTLVNonZeroTrue(r) ==
    LET Content(b) ==
            IF b.err.Kind # "nil" THEN [err |-> b.err, v |-> FALSE, r |-> b.r]
            ELSE [err |-> NoErr, v |-> b.data[1] # 0, r |-> b.r]
        Typed(t) ==
            IF t.err.Kind # "nil" THEN [err |-> t.err, v |-> FALSE, r |-> t.r]
            ELSE IF t.t # 1
            THEN [err |-> PlainError("unexpected type id for bool"), v |-> FALSE, r |-> t.r]
            ELSE Content(IoReadFull(t.r, 1))
    IN  Typed(ReadType(r))

ReadBoolTLV(r) ==
    LET Content(b) ==
            IF b.err.Kind # "nil" THEN [err |-> b.err, v |-> FALSE, r |-> b.r]
            ELSE IF b.data[1] = 0 THEN [err |-> NoErr, v |-> FALSE, r |-> b.r]
            ELSE IF b.data[1] = 255 THEN [err |-> NoErr, v |-> TRUE, r |-> b.r]
            ELSE [err |-> PlainError("invalid bool value"), v |-> FALSE, r |-> b.r]
        Typed(t) ==
            IF t.err.Kind # "nil" THEN [err |-> t.err, v |-> FALSE, r |-> t.r]
            ELSE IF t.t # 1
            THEN [err |-> PlainError("unexpected type id for bool"), v |-> FALSE, r |-> t.r]
            ELSE Content(IoReadFull(t.r, 1))
    IN  Typed(ReadType(r))

WriteU8TLV(v) == Then(WriteType(2), Wrote(<<v % 256>>))

WriteU32TLV(v) == Then(WriteType(4), Wrote(PutUint32(v)))

ReadU32TLV(r) ==
    LET Content(b) ==
            IF b.err.Kind # "nil" THEN [err |-> b.err, v |-> U32(0), r |-> b.r]
            ELSE [err |-> NoErr, v |-> Uint32(b.data), r |-> b.r]
        Typed(t) ==
            IF t.err.Kind # "nil" THEN [err |-> t.err, v |-> U32(0), r |-> t.r]
            ELSE IF t.t # 4
            THEN [err |-> PlainError("unexpected type id for u32"), v |-> U32(0), r |-> t.r]
            ELSE Content(IoReadFull(t.r, 4))
    IN  Typed(ReadType(r))

WriteStringTLV(s) ==
    IF ~Utf8Valid(s) THEN [err |-> PlainError("invalid utf-8"), out |-> <<>>]
    ELSE Then(WriteType(14),
         Then(WriteLen(Len(s)),
              IF Len(s) = 0 THEN Wrote(<<>>) ELSE Wrote(s)))

ReadStringTLV(r) ==
    LET Content(b) ==
            IF b.err.Kind # "nil" THEN [err |-> b.err, v |-> <<>>, r |-> b.r]
            ELSE IF ~Utf8Valid(b.data)
            THEN [err |-> PlainError("invalid utf-8"), v |-> <<>>, r |-> b.r]
            ELSE [err |-> NoErr, v |-> b.data, r |-> b.r]
        Sized(l) ==
            IF l.err.Kind # "nil" THEN [err |-> l.err, v |-> <<>>, r |-> l.r]
            ELSE IF l.n = 0 THEN [err |-> NoErr, v |-> <<>>, r |-> l.r]
            ELSE Content(ReadFull(l.r, l.n))
        Typed(t) ==
            IF t.err.Kind # "nil" THEN [err |-> t.err, v |-> <<>>, r |-> t.r]
            ELSE IF t.t # 14
            THEN [err |-> PlainError("unexpected type id for string"), v |-> <<>>, r |-> t.r]
            ELSE Sized(ReadLen(t.r))
    IN  Typed(ReadType(r))

(***************************************************************************)
(* Composite writers (internal/tlv.go).  The closure a writer is given is  *)
(* modelled by its effect gen = [err, out]: the bytes it writes to the     *)
(* staging buffer and the error it returns.  The staging buffer reaches    *)
(* the writer only after the closure has succeeded.                        *)
(***************************************************************************)
\* the frame with the type byte counted in the declared length
FrameCountsType(typeID, buf) ==
    Then(WriteType(typeID), Then(WriteLen(Len(buf) + 1), Wrote(buf)))

\* [type][len(buf)][buf] written to w
Frame(typeID, buf) == Then(WriteType(typeID), Then(WriteLen(Len(buf)), Wrote(buf)))

WriteArrayTLV(elemType, gen) ==
    IF elemType >= 128 THEN [err |-> errInvalidTypeID, out |-> <<>>]
    ELSE LET Staged(buf) ==
                 IF buf.err.Kind # "nil" THEN [err |-> buf.err, out |-> <<>>]
                 ELSE Frame(15, buf.out)
         IN  Staged(Then(WriteType(elemType), gen))

WriteMapTLV(keyType, valueType, gen) ==
    IF keyType >= 128 \/ valueType >= 128 THEN [err |-> errInvalidTypeID, out |-> <<>>]
    ELSE LET Staged(buf) ==
                 IF buf.err.Kind # "nil" THEN [err |-> buf.err, out |-> <<>>]
                 ELSE Frame(16, buf.out)
         IN  Staged(Then(WriteType(keyType), Then(WriteType(valueType), gen)))

WriteStructTLV(gen) ==
    IF gen.err.Kind # "nil" THEN [err |-> gen.err, out |-> <<>>]
    ELSE Frame(17, gen.out)

WriteEnumTLV(variantID, gen) ==
    IF variantID >= 128 THEN [err |-> errInvalidTypeID, out |-> <<>>]
    ELSE LET Staged(buf) ==
                 IF buf.err.Kind # "nil" THEN [err |-> buf.err, out |-> <<>>]
                 ELSE Frame(18, buf.out)
         IN  Staged(Then(Wrote(<<variantID>>), gen))

(***************************************************************************)
(* The scratch-buffer pool (internal/bufpool.go) under the composite       *)
(* writers.  A buffer is a number 1..made; the pool maps a buffer to the   *)
(* number of times it lies in the pool (sync.Pool keeps whatever it is     *)
(* given, so a buffer put twice would lie there twice).                    *)
(***************************************************************************)
\* encoders run in parallel, each on a sink of its own
NumEncoders == 2

Encoders == 1..NumEncoders

\* a composite nests at most MaxDepth deep, and the closure of a composite writer
\* makes at most MaxItems writes, each a primitive or a nested composite
MaxDepth == 2

MaxItems == 2

\* the garbage collector takes at most MaxCollected buffers from the pool
MaxCollected == 1

Buffers == 1..(NumEncoders * MaxDepth + MaxCollected)

\* what bufPool.Get() may return from pool p when m buffers were made: a buffer that
\* lies in the pool, or a new one (Get may also pass the pool by)
PoolGet(p, m) ==
    {[b |-> b, pool |-> [p EXCEPT ![b] = @ - 1], made |-> m] : b \in {x \in Buffers : p[x] > 0}}
        \cup (IF m + 1 \in Buffers
              THEN {[b |-> m + 1, pool |-> p, made |-> m + 1]}
              ELSE {})

\* a PutBuffer that puts nothing back
PutBufferNever(p, b) == p

\* PutBuffer(b) on pool p; buffer 0 is nil
PutBuffer(p, b) == IF b # 0 THEN [p EXCEPT ![b] = @ + 1] ELSE p

\* the frame of a composite writer that has just acquired buffer b
NewFrame(b) == [buf |-> b, pc |-> "closure", err |-> FALSE, items |-> 0, wrote |-> 0]

\* the stack after the call on top of it has returned with or without an error: the
\* closure of the caller, if there is one, returns the error it was given
Resume(stack, err) ==
    IF Len(stack) = 0 \/ ~err THEN stack
    ELSE [stack EXCEPT ![Len(stack)].pc = "return", ![Len(stack)].err = TRUE]

(***************************************************************************)
(* Composite readers (internal/tlv.go).  A reader returns [err, ids,       *)
(* payload, r]: ids are the id bytes that lead the content (the element    *)
(* type of an Array, the key and value types of a Map, the variant id of   *)
(* an Enum, none for a Struct) and payload is the content after them.      *)
(***************************************************************************)
ReadFailed(e, r) == [err |-> e, ids |-> <<>>, payload |-> <<>>, r |-> r]

ReadArrayTLV(r) ==
    LET Content(b) ==
            IF b.err.Kind # "nil" THEN ReadFailed(b.err, b.r)
            ELSE IF b.data[1] >= 128 THEN ReadFailed(errInvalidTypeID, b.r)
            ELSE [err |-> NoErr, ids |-> <<b.data[1]>>, payload |-> Drop(b.data, 1), r |-> b.r]
        Sized(l) ==
            IF l.err.Kind # "nil" THEN ReadFailed(l.err, l.r)
            ELSE IF l.n < 1 THEN ReadFailed(PlainError("array content too short"), l.r)
            ELSE Content(ReadFull(l.r, l.n))
        Typed(t) ==
            IF t.err.Kind # "nil" THEN ReadFailed(t.err, t.r)
            ELSE IF t.t # 15 THEN ReadFailed(PlainError("unexpected type id for array"), t.r)
            ELSE Sized(ReadLen(t.r))
    IN  Typed(ReadType(r))

ReadStructTLV(r) ==
    LET Content(b) ==
            IF b.err.Kind # "nil" THEN ReadFailed(b.err, b.r)
            ELSE [err |-> NoErr, ids |-> <<>>, payload |-> b.data, r |-> b.r]
        Sized(l) ==
            IF l.err.Kind # "nil" THEN ReadFailed(l.err, l.r)
            ELSE IF l.n = 0 THEN ReadFailed(NoErr, l.r)
            ELSE Content(ReadFull(l.r, l.n))
        Typed(t) ==
            IF t.err.Kind # "nil" THEN ReadFailed(t.err, t.r)
            ELSE IF t.t # 17 THEN ReadFailed(PlainError("unexpected type id for struct"), t.r)
            ELSE Sized(ReadLen(t.r))
    IN  Typed(ReadType(r))

ReadEnumTLV(r) ==
    LET Content(b) ==
            IF b.err.Kind # "nil" THEN ReadFailed(b.err, b.r)
            ELSE IF b.data[1] >= 128 THEN ReadFailed(errInvalidTypeID, b.r)
            ELSE [err |-> NoErr, ids |-> <<b.data[1]>>, payload |-> Drop(b.data, 1), r |-> b.r]
        Sized(l) ==
            IF l.err.Kind # "nil" THEN ReadFailed(l.err, l.r)
            ELSE IF l.n < 1 THEN ReadFailed(PlainError("enum content too short"), l.r)
            ELSE Content(ReadFull(l.r, l.n))
        Typed(t) ==
            IF t.err.Kind # "nil" THEN ReadFailed(t.err, t.r)
            ELSE IF t.t # 18 THEN ReadFailed(PlainError("unexpected type id for enum"), t.r)
            ELSE Sized(ReadLen(t.r))
    IN  Typed(ReadType(r))

ReadMapTLV(r) ==
    LET Content(b) ==
            IF b.err.Kind # "nil" THEN ReadFailed(b.err, b.r)
            ELSE IF b.data[1] >= 128 \/ b.data[2] >= 128 THEN ReadFailed(errInvalidTypeID, b.r)
            ELSE [err |-> NoErr, ids |-> <<b.data[1], b.data[2]>>,
                  payload |-> Drop(b.data, 2), r |-> b.r]
        Sized(l) ==
            IF l.err.Kind # "nil" THEN ReadFailed(l.err, l.r)
            ELSE IF l.n < 2 THEN ReadFailed(PlainError("map content too short"), l.r)
            ELSE Content(ReadFull(l.r, l.n))
        Typed(t) ==
            IF t.err.Kind # "nil" THEN ReadFailed(t.err, t.r)
            ELSE IF t.t # 16 THEN ReadFailed(PlainError("unexpected type id for map"), t.r)
            ELSE Sized(ReadLen(t.r))
    IN  Typed(ReadType(r))

(***************************************************************************)
(* Go types and values, as reflect sees them.                              *)
(*   type:  [kind |-> "Bool" | "Uint8" | "Uint32" | "String"],             *)
(*          [kind |-> "Pointer", elem |-> type],                           *)
(*          [kind |-> "Struct", fields |-> <<[tag, type], ...>>]           *)
(*   value: a BOOLEAN, a byte, a U32, a byte sequence (string),            *)
(*          <<>> (nil pointer) or <<pointee>>, a sequence of field values. *)
(* A struct tag `relish:"..."` is kept in its parts:                       *)
(*   dash (the tag is "-" or missing), id (the integer before the first    *)
(*   comma), optional, omitempty.                                          *)
(***************************************************************************)
TBool == [kind |-> "Bool"]

TUint8 == [kind |-> "Uint8"]

TUint32 == [kind |-> "Uint32"]

TString == [kind |-> "String"]

PtrTo(t) == [kind |-> "Pointer", elem |-> t]

StructOf(fields) == [kind |-> "Struct", fields |-> fields]

Tag(id) == [dash |-> FALSE, id |-> id, optional |-> FALSE, omitempty |-> FALSE]

TagOptional(id) == [dash |-> FALSE, id |-> id, optional |-> TRUE, omitempty |-> FALSE]

TagOmitEmpty(id) == [dash |-> FALSE, id |-> id, optional |-> FALSE, omitempty |-> TRUE]

TagDash == [dash |-> TRUE, id |-> 0, optional |-> FALSE, omitempty |-> FALSE]

Field(tag, t) == [tag |-> tag, type |-> t]

\* ParseRelishTag(f): [id, optional, omitempty, ok]
ParseRelishTag(f) ==
    IF f.tag.dash \/ f.tag.id < 0 \/ f.tag.id >= 128
    THEN [id |-> 0, optional |-> FALSE, omitempty |-> FALSE, ok |-> FALSE]
    ELSE [id |-> f.tag.id, optional |-> f.tag.optional,
          omitempty |-> f.tag.omitempty, ok |-> TRUE]

\* reflect.Zero(t)
RECURSIVE Zero(_)
Zero(t) ==
    CASE t.kind = "Bool" -> FALSE
      [] t.kind = "Uint8" -> 0
      [] t.kind = "Uint32" -> U32(0)
      [] t.kind = "String" -> <<>>
      [] t.kind = "Pointer" -> <<>>
      [] t.kind = "Struct" -> [i \in 1..Len(t.fields) |-> Zero(t.fields[i].type)]

\* an isZeroValue that looks through a pointer: a pointer to a zero value counts
\* as zero
isZeroValueDeep(t, v) ==
    IF t.kind = "Pointer" THEN v = <<>> \/ v = <<Zero(t.elem)>>
    ELSE v = Zero(t)

\* isZeroValue(v): nil for a pointer, deep equality with the zero value otherwise
isZeroValue(t, v) ==
    IF t.kind = "Pointer" THEN v = <<>>
    ELSE v = Zero(t)

(***************************************************************************)
(* Encoder (encoder.go)                                                    *)
(***************************************************************************)
\* encodeValue's leading loop: follow pointers; a nil pointer becomes the zero
\* value of its element type and ends the loop.
RECURSIVE Deref(_, _)
Deref(t, v) ==
    IF t.kind # "Pointer" THEN [type |-> t, value |-> v]
    ELSE IF v = <<>> THEN [type |-> t.elem, value |-> Zero(t.elem)]
    ELSE Deref(t.elem, v[1])

\* sort.Slice(fields, by id): insertion sort, as sort.Slice does for short slices
RECURSIVE InsertById(_, _)
InsertById(sorted, fi) ==
    IF Len(sorted) = 0 THEN <<fi>>
    ELSE IF fi.id < sorted[Len(sorted)].id
    THEN Append(InsertById(Take(sorted, Len(sorted) - 1), fi), sorted[Len(sorted)])
    ELSE Append(sorted, fi)

RECURSIVE SortById(_)
SortById(fields) ==
    IF Len(fields) = 0 THEN <<>>
    ELSE InsertById(SortById(Take(fields, Len(fields) - 1)), fields[Len(fields)])

\* encodeStruct's first loop: the fieldInfo of every field whose tag parses
RECURSIVE FieldInfos(_, _, _)
FieldInfos(t, v, i) ==
    IF i > Len(t.fields) THEN <<>>
    ELSE LET Parsed(p, rest) ==
                 IF ~p.ok THEN rest
                 ELSE <<[id |-> p.id, optional |-> p.optional, omitempty |-> p.omitempty,
                         type |-> t.fields[i].type, value |-> v[i]]>> \o rest
         IN  Parsed(ParseRelishTag(t.fields[i]), FieldInfos(t, v, i + 1))

IsPresentPtr(fi) == fi.type.kind = "Pointer" /\ fi.value # <<>>

RECURSIVE encodeValue(_, _)
RECURSIVE encodeStruct(_, _)
RECURSIVE WriteFields(_)

encodeValue(t, v) ==
    LET Switch(rv) ==
            CASE rv.type.kind = "Bool" -> WriteBoolTLV(rv.value)
              [] rv.type.kind = "Uint8" -> WriteU8TLV(rv.value)
              [] rv.type.kind = "Uint32" -> WriteU32TLV(rv.value)
              [] rv.type.kind = "String" -> WriteStringTLV(rv.value)
              [] rv.type.kind = "Struct" -> encodeStruct(rv.type, rv.value)
              [] OTHER -> [err |-> ErrNotImplemented, out |-> <<>>]
    IN  Switch(Deref(t, v))

\* the closure given to WriteStructTLV: [field id][value TLV] for every field kept
WriteFields(fields) ==
    IF Len(fields) = 0 THEN Wrote(<<>>)
    ELSE LET One(fi, rest) ==
                 IF fi.optional /\ fi.type.kind = "Pointer" /\ fi.value = <<>>
                 THEN rest
                 ELSE IF fi.omitempty /\ isZeroValue(fi.type, fi.value)
                 THEN rest
                 ELSE Then(WriteType(fi.id % 256), Then(encodeValue(fi.type, fi.value), rest))
         IN  One(fields[1], WriteFields(Drop(fields, 1)))

\* the encoder that frames every aggregate as a Struct
encodeStructAsStruct(t, v) == WriteStructTLV(WriteFields(SortById(FieldInfos(t, v, 1))))

encodeStruct(t, v) ==
    LET Variant(fi) == WriteEnumTLV(fi.id % 256, encodeValue(fi.type, fi.value))
        Framing(fields, optCount, presentOpt) ==
            IF Len(fields) > 0 /\ optCount = Len(fields) /\ presentOpt = 1
            THEN Variant(fields[CHOOSE i \in 1..Len(fields) :
                                  /\ IsPresentPtr(fields[i])
                                  /\ \A j \in 1..(i - 1) : ~IsPresentPtr(fields[j])])
            ELSE WriteStructTLV(WriteFields(SortById(fields)))
        Counted(fields) ==
            Framing(fields,
                    Cardinality({i \in 1..Len(fields) : fields[i].optional}),
                    Cardinality({i \in 1..Len(fields) :
                                   fields[i].optional /\ IsPresentPtr(fields[i])}))
    IN  Counted(FieldInfos(t, v, 1))

\* Marshal(v): [err, out]; out is nil when err is not
Marshal(t, v) ==
    LET Result(e) == IF e.err.Kind # "nil" THEN [err |-> e.err, out |-> <<>>] ELSE e
    IN  Result(encodeValue(t, v))

(***************************************************************************)
(* Decoder (relish/decoder.go).  A decode returns [err, v, r]: the error,  *)
(* the target after the call (the target is written in place, so v is what *)
(* the caller sees also when err is not nil) and the reader after it.      *)
(* A run-time panic is the error kind "panic"; a loop that would not end   *)
(* is the error kind "hang".                                               *)
(***************************************************************************)
Panic(msg) == [Kind |-> "panic", Detail |-> msg]

Hang == [Kind |-> "hang", Detail |-> "loop makes no progress"]

\* readTLVBytes(r): [err, tlv, r]
readTLVBytes(r) ==
    LET Fixed(t, b) ==
            IF b.err.Kind # "nil" THEN [err |-> b.err, tlv |-> <<>>, r |-> b.r]
            ELSE [err |-> NoErr, tlv |-> <<t>> \o b.data, r |-> b.r]
        Var(hdr, b) ==
            IF b.err.Kind # "nil" THEN [err |-> b.err, tlv |-> <<>>, r |-> b.r]
            ELSE [err |-> NoErr, tlv |-> hdr \o b.data, r |-> b.r]
        Header(l, hdr) ==
            IF l.n > 0 THEN Var(hdr, ReadFull(l.r, l.n))
            ELSE [err |-> NoErr, tlv |-> hdr, r |-> l.r]
        Sized(t, l) ==
            IF l.err.Kind # "nil" THEN [err |-> l.err, tlv |-> <<>>, r |-> l.r]
            ELSE Header(l, <<t>> \o Take(EncodeLen(Zeros(4), l.n).dst, l.used))
        Typed(t, fs) ==
            IF t.err.Kind # "nil" THEN [err |-> t.err, tlv |-> <<>>, r |-> t.r]
            ELSE IF fs[2]
            THEN IF fs[1] = 0
                 THEN [err |-> NoErr, tlv |-> <<t.t>>, r |-> t.r]
                 ELSE Fixed(t.t, ReadFull(t.r, fs[1]))
            ELSE Sized(t.t, ReadLen(t.r))
        Start(t) == Typed(t, FixedSize(t.t))
    IN  Start(ReadType(r))

\* the map built without looking at ParseRelishTag's ok
idToIndexIgnoringOk(t, id) ==
    LET bound == {i \in 1..Len(t.fields) : ParseRelishTag(t.fields[i]).id = id}
    IN  IF bound = {} THEN 0 ELSE CHOOSE i \in bound : \A j \in bound : j <= i

\* decodeStructInto's map from field id to field index: the last field with the
\* id wins; 0 when the id has no binding
idToIndex(t, id) ==
    LET bound == {i \in 1..Len(t.fields) :
                    ParseRelishTag(t.fields[i]).ok /\ ParseRelishTag(t.fields[i]).id = id}
    IN  IF bound = {} THEN 0 ELSE CHOOSE i \in bound : \A j \in bound : j <= i

\* the search that settles on the first field when no id is the variant id
VariantIndexOrFirst(t, vid) ==
    LET bound == {i \in 1..Len(t.fields) :
                    ParseRelishTag(t.fields[i]).ok
                    /\ ParseRelishTag(t.fields[i]).id % 256 = vid}
    IN  IF bound = {} THEN Min(1, Len(t.fields)) ELSE CHOOSE i \in bound : \A j \in bound : i <= j

\* decodeEnumInto's search: the first field whose id is the variant id; 0 when none
VariantIndex(t, vid) ==
    LET bound == {i \in 1..Len(t.fields) :
                    ParseRelishTag(t.fields[i]).ok
                    /\ ParseRelishTag(t.fields[i]).id % 256 = vid}
    IN  IF bound = {} THEN 0 ELSE CHOOSE i \in bound : \A j \in bound : i <= j

RECURSIVE DecodeInto(_, _, _)
RECURSIVE decodeStructInto(_, _, _)
RECURSIVE StructLoop(_, _, _, _, _)
RECURSIVE decodeEnumInto(_, _, _)
RECURSIVE enumContent(_, _, _)

\* The field loop of decodeStructInto over the payload br, with the last id seen;
\* fuel is the number of iterations left before the loop counts as endless.
StructLoop(t, x, br, prev, fuel) ==
    LET Assigned(b, tlv, d, x2) ==
            IF d.err.Kind # "nil" THEN [err |-> d.err, v |-> x2]
            ELSE StructLoop(t, x2, tlv.r, b, fuel - 1)
        Decoded(b, tlv, idx, isP, d) ==
            Assigned(b, tlv, d, [x EXCEPT ![idx] = IF isP THEN <<d.v>> ELSE d.v])
        Bound(b, tlv, idx, ft, isP) ==
            Decoded(b, tlv, idx, isP,
                    DecodeInto(IF isP THEN ft.elem ELSE ft,
                               IF isP
                               THEN IF x[idx] = <<>> THEN Zero(ft.elem) ELSE x[idx][1]
                               ELSE x[idx],
                               tlv.tlv))
        Value(b, tlv, idx) ==
            IF tlv.err.Kind # "nil" THEN [err |-> tlv.err, v |-> x]
            ELSE IF idx = 0 THEN StructLoop(t, x, tlv.r, b, fuel - 1)
            ELSE Bound(b, tlv, idx, t.fields[idx].type, t.fields[idx].type.kind = "Pointer")
        Id(b) ==
            IF b >= 128
            THEN [err |-> RelishError("ErrInvalidFieldID", "top bit set"), v |-> x]
            ELSE IF b <= prev
            THEN [err |-> RelishError("ErrFieldOrder", "field ids not strictly increasing"),
                  v |-> x]
            ELSE Value(b, readTLVBytes(Drop(br, 1)), idToIndex(t, b))
    IN  IF ~(Len(br) > 0) THEN [err |-> NoErr, v |-> x]
        ELSE IF fuel = 0 THEN [err |-> Hang, v |-> x]
        ELSE Id(br[1])

decodeStructInto(t, x, r) ==
    LET Looped(buf, loop) == [err |-> loop.err, v |-> loop.v, r |-> buf.r]
        Payload(buf) ==
            IF buf.err.Kind # "nil" THEN [err |-> buf.err, v |-> x, r |-> buf.r]
            ELSE Looped(buf, StructLoop(t, x, buf.data, -1, Len(buf.data)))
        Sized(l) ==
            IF l.err.Kind # "nil" THEN [err |-> l.err, v |-> x, r |-> l.r]
            ELSE IF l.n = 0 THEN [err |-> NoErr, v |-> x, r |-> l.r]
            ELSE Payload(ReadFull(l.r, l.n))
    IN  Sized(ReadLen(r))

\* decodeEnumInto after the content buffer is read: buf[0] is the variant id
enumContent(t, x, buf) ==
    LET Assigned(d, x2) ==
            IF d.err.Kind # "nil" THEN [err |-> d.err, v |-> x2, r |-> buf.r]
            ELSE IF Len(d.r) # 0
            THEN [err |-> RelishError("ErrEnumLengthMismatch",
                                      "variant did not consume full length"),
                  v |-> x2, r |-> buf.r]
            ELSE [err |-> NoErr, v |-> x2, r |-> buf.r]
        Decoded(idx, d) == Assigned(d, [x EXCEPT ![idx] = <<d.v>>])
        Variant(payload, idx, ft) ==
            IF idx = 0
            THEN [err |-> RelishError("ErrTypeMismatch", "unknown enum variant"),
                  v |-> x, r |-> buf.r]
            ELSE IF ft.kind # "Pointer"
            THEN [err |-> RelishError("ErrTypeMismatch", "enum field must be pointer"),
                  v |-> x, r |-> buf.r]
            ELSE Decoded(idx,
                         DecodeInto(ft.elem,
                                    IF x[idx] = <<>> THEN Zero(ft.elem) ELSE x[idx][1],
                                    payload))
        Found(idx) ==
            Variant(Drop(buf.data, 1), idx, IF idx = 0 THEN TBool ELSE t.fields[idx].type)
    IN  IF buf.err.Kind # "nil" THEN [err |-> buf.err, v |-> x, r |-> buf.r]
        ELSE IF Len(buf.data) < 1
        THEN [err |-> Panic("index out of range [0] with length 0"), v |-> x, r |-> buf.r]
        ELSE Found(VariantIndex(t, buf.data[1]))

\* decodeEnumInto without its check that the declared length holds a variant id
decodeEnumIntoUnguarded(t, x, r) ==
    LET Sized(l) ==
            IF l.err.Kind # "nil" THEN [err |-> l.err, v |-> x, r |-> l.r]
            ELSE enumContent(t, x, ReadFull(l.r, l.n))
    IN  Sized(ReadLen(r))

decodeEnumInto(t, x, r) ==
    LET Sized(l) ==
            IF l.err.Kind # "nil" THEN [err |-> l.err, v |-> x, r |-> l.r]
            ELSE IF l.n < 1
            THEN [err |-> RelishError("ErrTypeMismatch", "enum content too short"),
                  v |-> x, r |-> l.r]
            ELSE enumContent(t, x, ReadFull(l.r, l.n))
    IN  Sized(ReadLen(r))

\* Decode's switch on the kind of the value the target points to
DecodeInto(t, x, r) ==
    LET Framed(ty) ==
            IF ty.err.Kind # "nil" THEN [err |-> ty.err, v |-> x, r |-> ty.r]
            ELSE IF ty.t = 17 THEN decodeStructInto(t, x, ty.r)
            ELSE IF ty.t = 18 THEN decodeEnumInto(t, x, ty.r)
            ELSE [err |-> RelishError("ErrTypeMismatch", "expected struct/enum TLV"),
                  v |-> x, r |-> ty.r]
        Set(p) == [err |-> p.err, v |-> IF p.err.Kind = "nil" THEN p.v ELSE x, r |-> p.r]
    IN  CASE t.kind = "Struct" -> Framed(ReadType(r))
          [] t.kind = "String" -> Set(ReadStringTLV(r))
          [] t.kind = "Bool" -> Set(ReadBoolTLV(r))
          [] t.kind = "Uint32" -> Set(ReadU32TLV(r))
          [] OTHER -> [err |-> ErrNotImplemented, v |-> x, r |-> r]

\* a Decode that reads ahead as a buffered reader does: whatever the source still
\* held when the call was made is taken from it
DecodeReadAhead(pt, pv, r) ==
    LET Pointee(d) == [err |-> d.err, v |-> <<d.v>>, r |-> <<>>]
    IN  IF pt.kind # "Pointer" \/ pv = <<>>
        THEN [err |-> RelishError("ErrTypeMismatch", "Decode target must be non-nil pointer"),
              v |-> pv, r |-> r]
        ELSE Pointee(DecodeInto(pt.elem, pv[1], r))

\* Decoder.Decode(v) on a decoder reading r: pt is the type of v, pv its value
\* (<<>> for a nil pointer, <<x>> for a pointer to x)
Decode(pt, pv, r) ==
    LET Pointee(d) == [err |-> d.err, v |-> <<d.v>>, r |-> d.r]
    IN  IF pt.kind # "Pointer" \/ pv = <<>>
        THEN [err |-> RelishError("ErrTypeMismatch", "Decode target must be non-nil pointer"),
              v |-> pv, r |-> r]
        ELSE Pointee(DecodeInto(pt.elem, pv[1], r))

\* Decoder.SkipValue(): [err, r]
SkipValue(r) == [err |-> ErrNotImplemented, r |-> r]

Unmarshal(data, pt, pv) == Decode(pt, pv, data)

(***************************************************************************)
(* The encoder of the text representation (textrep): encodeValueTLV over   *)
(* the values of its syntax tree.  Modelled are valBool, valStr, unsigned  *)
(* valInt of 8 and 32 bits, valMap and valStruct.  A struct literal is the *)
(* sequence of its entries as parseStructLiteral appends them, in the      *)
(* order of the text; the id of an entry is the integer parseDecInt made   *)
(* of its key, and an entry "id: none" has omit set and no value.          *)
(*   value: [val |-> "valBool", v], [val |-> "valStr", s],                 *)
(*          [val |-> "valInt", bits, u],                                   *)
(*          [val |-> "valMap", key, elem, pairs |-> <<[k, v], ...>>],      *)
(*          [val |-> "valStruct", fields |-> <<[id, val, omit], ...>>]     *)
(*   key and elem are rType kinds: "tBool", "tU8", "tU32", "tString"       *)
(***************************************************************************)
valBool(v) == [val |-> "valBool", v |-> v]

valStr(str) == [val |-> "valStr", s |-> str]

valInt(bits, u) == [val |-> "valInt", bits |-> bits, u |-> u]

valMap(key, elem, pairs) == [val |-> "valMap", key |-> key, elem |-> elem, pairs |-> pairs]

valStruct(fields) == [val |-> "valStruct", fields |-> fields]

field(id, val, omit) == [id |-> id, val |-> val, omit |-> omit]

\* the value of an entry that has none
valNone == [val |-> "nil"]

\* rType.typeID(): <<type id, ok>>
typeID(k) ==
    CASE k = "tBool" -> <<1, TRUE>>
      [] k = "tU8" -> <<2, TRUE>>
      [] k = "tU32" -> <<4, TRUE>>
      [] k = "tString" -> <<14, TRUE>>
      [] OTHER -> <<0, FALSE>>

RECURSIVE encodeValueTLV(_)
RECURSIVE writePairs(_, _)
RECURSIVE writeNestedFields(_, _)

\* the closure encodeValueTLV gives to WriteMapTLV for a valMap: seen is the set of
\* key payloads (the key's TLV without its type byte) written so far
writePairs(pairs, seen) ==
    IF Len(pairs) = 0 THEN Wrote(<<>>)
    ELSE LET Pair(ktlv, vtlv) ==
                 IF ktlv.err.Kind # "nil" THEN [err |-> ktlv.err, out |-> <<>>]
                 ELSE IF vtlv.err.Kind # "nil" THEN [err |-> vtlv.err, out |-> <<>>]
                 ELSE IF Len(ktlv.out) < 1 THEN [err |-> PlainError("invalid key tlv"), out |-> <<>>]
                 ELSE IF Drop(ktlv.out, 1) \in seen
                 THEN [err |-> PlainError("duplicate map key"), out |-> <<>>]
                 ELSE Then(Wrote(Drop(ktlv.out, 1)),
                           IF Len(vtlv.out) < 1
                           THEN [err |-> PlainError("invalid value tlv"), out |-> <<>>]
                           ELSE Then(Wrote(Drop(vtlv.out, 1)),
                                     writePairs(Drop(pairs, 1), seen \cup {Drop(ktlv.out, 1)})))
         IN  Pair(encodeValueTLV(pairs[1].k), encodeValueTLV(pairs[1].v))

\* the closure encodeValueTLV gives to WriteStructTLV for a nested *valStruct, after
\* its sort.Slice by id: prev is the id of the last field written, and the id byte
\* is byte(f.id), the low 8 bits of the int
writeNestedFields(fields, prev) ==
    IF Len(fields) = 0 THEN Wrote(<<>>)
    ELSE LET Value(f, tlv) ==
                 IF tlv.err.Kind # "nil" THEN [err |-> tlv.err, out |-> <<>>]
                 ELSE Then(Wrote(tlv.out), writeNestedFields(Drop(fields, 1), f.id))
             One(f) ==
                 IF f.omit THEN writeNestedFields(Drop(fields, 1), prev)
                 ELSE IF f.id <= prev
                 THEN [err |-> PlainError("struct field ids not strictly increasing in nested struct"),
                       out |-> <<>>]
                 ELSE Then(WriteType(f.id % 256), Value(f, encodeValueTLV(f.val)))
         IN  One(fields[1])

\* encodeValueTLV(v): [err, out]; out is nil when err is not
encodeValueTLV(x) ==
    LET Map(kt, vt) ==
            IF ~kt[2] THEN [err |-> PlainError("unknown map key type"), out |-> <<>>]
            ELSE IF ~vt[2] THEN [err |-> PlainError("unknown map value type"), out |-> <<>>]
            ELSE WriteMapTLV(kt[1], vt[1], writePairs(x.pairs, {}))
        Unsigned ==
            CASE x.bits = 8 -> WriteU8TLV(x.u)
              [] x.bits = 32 -> WriteU32TLV(x.u)
              [] OTHER -> [err |-> PlainError("invalid unsigned int bits"), out |-> <<>>]
        Result(e) == IF e.err.Kind # "nil" THEN [err |-> e.err, out |-> <<>>] ELSE e
    IN  Result(CASE x.val = "valBool" -> WriteBoolTLV(x.v)
                 [] x.val = "valStr" -> WriteStringTLV(x.s)
                 [] x.val = "valInt" -> Unsigned
                 [] x.val = "valMap" -> Map(typeID(x.key), typeID(x.elem))
                 [] x.val = "valStruct" ->
                      WriteStructTLV(writeNestedFields(SortById(x.fields), -1))
                 [] OTHER -> [err |-> PlainError("unsupported value kind"), out |-> <<>>])

\* the closure EncodeBytes gives to WriteStructTLV for the top-level struct, after
\* its sort.Slice by id: seen is the set of ids written so far
RECURSIVE writeTopFields(_, _)
writeTopFields(fields, seen) ==
    IF Len(fields) = 0 THEN Wrote(<<>>)
    ELSE LET Value(f, tlv) ==
                 IF tlv.err.Kind # "nil" THEN [err |-> tlv.err, out |-> <<>>]
                 ELSE Then(Wrote(tlv.out), writeTopFields(Drop(fields, 1), seen \cup {f.id}))
             One(f) ==
                 IF f.omit THEN writeTopFields(Drop(fields, 1), seen)
                 ELSE IF f.id \in seen
                 THEN [err |-> PlainError("duplicate field id"), out |-> <<>>]
                 ELSE IF f.id < 0 \/ f.id >= 128
                 THEN [err |-> PlainError("field id out of range"), out |-> <<>>]
                 ELSE Then(WriteType(f.id % 256), Value(f, encodeValueTLV(f.val)))
         IN  One(fields[1])

\* EncodeBytes(src) for a document that is the struct literal st and has no
\* aliases: [err, out]; out is nil when err is not
EncodeBytes(st) ==
    LET Result(e) == IF e.err.Kind # "nil" THEN [err |-> e.err, out |-> <<>>] ELSE e
    IN  Result(WriteStructTLV(writeTopFields(SortById(st.fields), {})))

(***************************************************************************)
(* The aggregate types of reference_test.go, and four more that bind a     *)
(* uint8, a pointer that is not optional, fields declared out of id order  *)
(* and an optional string.                                                 *)
(***************************************************************************)
Simple == StructOf(<<Field(Tag(0), TUint32)>>)

MultiField == StructOf(<<Field(Tag(0), TUint32), Field(Tag(1), TString), Field(Tag(5), TBool)>>)

WithOption == StructOf(<<Field(Tag(0), TUint32), Field(TagOptional(1), PtrTo(TUint32))>>)

WithSkip == StructOf(<<Field(Tag(0), TUint32), Field(TagDash, TString)>>)

Empty == StructOf(<<>>)

Outer == StructOf(<<Field(Tag(0), Simple), Field(Tag(1), TUint32)>>)

SimpleEnum == StructOf(<<Field(TagOptional(0), PtrTo(TUint32)),
                         Field(TagOptional(1), PtrTo(TString))>>)

EnumWithStruct == StructOf(<<Field(TagOptional(0), PtrTo(TUint32)),
                             Field(TagOptional(1), PtrTo(Simple))>>)

NestedEnum == StructOf(<<Field(TagOptional(0), PtrTo(SimpleEnum)),
                         Field(TagOptional(1), PtrTo(TUint32))>>)

WithU8 == StructOf(<<Field(Tag(0), TUint8)>>)

WithPtr == StructOf(<<Field(Tag(0), PtrTo(TUint32))>>)

Unordered == StructOf(<<Field(Tag(5), TBool), Field(Tag(1), TUint32)>>)

OptString == StructOf(<<Field(Tag(0), TUint32), Field(TagOptional(1), PtrTo(TString))>>)

\* two bindings with the same field id
DupIds == StructOf(<<Field(Tag(0), TUint32), Field(Tag(0), TUint32)>>)

\* bindings flagged omitempty, one of every kind isZeroValue tells apart
WithOmit == StructOf(<<Field(TagOmitEmpty(0), TUint32), Field(TagOmitEmpty(1), TString),
                       Field(TagOmitEmpty(2), TBool), Field(TagOmitEmpty(3), PtrTo(TUint32))>>)

AggregateTypes ==
    {Simple, MultiField, WithOption, WithSkip, Empty, Outer, SimpleEnum,
     EnumWithStruct, NestedEnum, WithU8, WithPtr, Unordered, OptString,
     DupIds, WithOmit}

(***************************************************************************)
(* The values the model draws its inputs from                              *)
(***************************************************************************)
\* strings of up to MaxStrLen bytes over 'h' and the two bytes of U+00E9, and one
\* string of LongStrLen bytes, whose length takes the 4-byte form
MaxStrLen == 2

LongStrLen == 130

LongStr == [i \in 1..LongStrLen |-> 104]

StrBytes == {104, 195, 169}

RECURSIVE SeqsUpTo(_, _)
SeqsUpTo(S, n) ==
    IF n = 0 THEN {<<>>}
    ELSE LET shorter == SeqsUpTo(S, n - 1)
         IN  shorter \cup {Append(q, b) : q \in {q \in shorter : Len(q) = n - 1}, b \in S}

StrVals == SeqsUpTo(StrBytes, MaxStrLen) \cup {LongStr}

U32Vals == {U32(0), U32(10), U32(42)}

U8Vals == {0, 7}

\* every value of type t over the sample values
RECURSIVE Vals(_)
RECURSIVE FieldVals(_, _)
FieldVals(fields, i) ==
    IF i > Len(fields) THEN {<<>>}
    ELSE {<<h>> \o rest : h \in Vals(fields[i].type), rest \in FieldVals(fields, i + 1)}

Vals(t) ==
    CASE t.kind = "Bool" -> {FALSE, TRUE}
      [] t.kind = "Uint8" -> U8Vals
      [] t.kind = "Uint32" -> U32Vals
      [] t.kind = "String" -> StrVals
      [] t.kind = "Pointer" -> {<<>>} \cup {<<e>> : e \in Vals(t.elem)}
      [] t.kind = "Struct" -> FieldVals(t.fields, 1)

\* a value of type t none of whose parts is zero
RECURSIVE Filled(_)
Filled(t) ==
    CASE t.kind = "Bool" -> TRUE
      [] t.kind = "Uint8" -> 9
      [] t.kind = "Uint32" -> U32(77)
      [] t.kind = "String" -> <<112>>
      [] t.kind = "Pointer" -> <<Filled(t.elem)>>
      [] t.kind = "Struct" -> [i \in 1..Len(t.fields) |-> Filled(t.fields[i].type)]

(***************************************************************************)
(* Wire inputs that no encoder of this package need have written: a Struct *)
(* or Enum frame around complete value TLVs.  Each sample TLV is given     *)
(* with the kind and the value it carries; samples 4 and 6 carry their     *)
(* length in the 4-byte form although it is below 128; sample 10 is a Map  *)
(* from u8 to bool with the key 7 twice.                                   *)
(***************************************************************************)
SampleTLVs ==
    << [bytes |-> <<4, 42, 0, 0, 0>>,                 kind |-> "Uint32", value |-> U32(42)],
       [bytes |-> <<1, 255>>,                         kind |-> "Bool",   value |-> TRUE],
       [bytes |-> <<14, 4, 104, 105>>,                kind |-> "String", value |-> <<104, 105>>],
       [bytes |-> <<14, 5, 0, 0, 0, 104, 105>>,       kind |-> "String", value |-> <<104, 105>>],
       [bytes |-> <<17, 12, 0, 4, 42, 0, 0, 0>>,      kind |-> "Struct", value |-> <<U32(42)>>],
       [bytes |-> <<17, 13, 0, 0, 0, 0, 4, 42, 0, 0, 0>>,
                                                      kind |-> "Struct", value |-> <<U32(42)>>],
       [bytes |-> <<2, 7>>,                           kind |-> "Uint8",  value |-> 7],
       [bytes |-> <<18, 12, 0, 4, 42, 0, 0, 0>>,      kind |-> "Enum",   value |-> <<U32(42)>>],
       [bytes |-> <<0>>,                              kind |-> "Null",   value |-> 0],
       [bytes |-> <<16, 12, 2, 1, 7, 255, 7, 0>>,     kind |-> "Map",    value |-> 0] >>

WireIds == {0, 1, 5}

\* a struct payload has at most MaxFields fields
MaxFields == 2

\* the samples a struct payload is made of: all but the Enum and the Map TLV
StructSamples == {k \in 1..Len(SampleTLVs) : SampleTLVs[k].kind \notin {"Enum", "Map"}}

WireEntries == WireIds \X StructSamples

\* a plan is the sequence of <<field id, sample>> pairs of a struct payload
Plans == SeqsUpTo(WireEntries, MaxFields)

RECURSIVE PlanBytes(_)
PlanBytes(plan) ==
    IF Len(plan) = 0 THEN <<>>
    ELSE <<plan[1][1]>> \o SampleTLVs[plan[1][2]].bytes \o PlanBytes(Drop(plan, 1))

\* the length prefix of n < 2^31 in the 1-byte form (n <= 127) or the 4-byte form
LenPrefix(n, form) ==
    IF form = "short" THEN <<2 * n>>
    ELSE <<2 * (n % 128) + 1, (n \div 128) % 256, (n \div 32768) % 256, n \div 8388608>>

StructWire(plan, form) == <<17>> \o LenPrefix(Len(PlanBytes(plan)), form) \o PlanBytes(plan)

EnumWire(vid, k, extra, form) ==
    <<18>> \o LenPrefix(1 + Len(SampleTLVs[k].bytes) + Len(extra), form)
           \o <<vid>> \o SampleTLVs[k].bytes \o extra

\* variant ids on the wire: bound ones, an unbound one, and two with bit 7 set
VariantIds == WireIds \cup {128, 255}

EnumU8 == StructOf(<<Field(TagOptional(0), PtrTo(TUint8)), Field(TagOptional(1), PtrTo(TBool))>>)

StructTargets == {Simple, MultiField, WithSkip, Outer, OptString, WithU8, Unordered}

EnumTargets == {SimpleEnum, EnumWithStruct, NestedEnum, EnumU8}

Extras == {<<>>, <<255>>, <<0, 0>>}

Targets(t) == {Zero(t), Filled(t)}

\* lengths given to the length codec: every n up to MaxDenseLen and the values
\* around the byte boundaries of the 4-byte form
MaxDenseLen == 300

LenVals ==
    (0..MaxDenseLen) \cup {16383, 16384, 32767, 32768, 8388607, 8388608, MaxLen - 1, MaxLen}

\* inputs of DecodeLen: every single byte, and slices of other lengths
LenSrcs ==
    {<<b>> : b \in 0..255}
        \cup {<<>>, <<1, 0>>, <<1, 0, 0>>, <<3, 1, 0, 0>>, <<3, 1, 0, 0, 9>>,
              <<255, 255, 255, 255>>, <<4, 9>>}

\* what the closure of a composite writer does: it writes up to MaxClosureLen bytes
\* to the staging buffer and returns nil or an error
MaxClosureLen == 129

ClosureLens == {0, 1, 2} \cup {k \in (MaxClosureLen - 4)..MaxClosureLen : k >= 0}

ClosureOuts == {[i \in 1..k |-> (7 * i) % 256] : k \in ClosureLens}

ClosureResults ==
    {[err |-> NoErr, out |-> o] : o \in ClosureOuts}
        \cup {[err |-> PlainError("closure failed"), out |-> o] : o \in ClosureOuts}

\* element, key, value type ids and variant ids given to the composite writers
WriterIDs == {0, 4, 14, 17, 127, 128, 255}

\* arbitrary inputs of Unmarshal: every sequence of up to MaxRawLen bytes of RawBytes
MaxRawLen == 4

RawBytes == {0, 1, 2, 4, 17, 18, 255}

RawInputs == SeqsUpTo(RawBytes, MaxRawLen)

RawTargets == {Simple, Outer, SimpleEnum, NestedEnum, WithU8}

\* damaged inputs of Unmarshal: a Struct or Enum frame cut short, or with one byte
\* replaced
BadBytes == {1, 128, 255}

Damaged(w) ==
    {Take(w, k) : k \in 0..Len(w)}
        \cup {[w EXCEPT ![i] = b] : i \in 1..Len(w), b \in BadBytes}

SoundWires ==
    {StructWire(<<e>>, form) :
       e \in WireIds \X {k \in 1..Len(SampleTLVs) : SampleTLVs[k].kind # "Enum"},
       form \in {"short", "long"}}
        \cup {EnumWire(vid, k, <<>>, form) :
                vid \in {0, 1}, k \in 1..Len(SampleTLVs), form \in {"short", "long"}}

DamagedInputs == UNION {Damaged(w) : w \in SoundWires}

DamagedTargets == {MultiField, Outer, OptString, SimpleEnum, EnumWithStruct, NestedEnum}

\* maps given to encodeValueTLV: up to MaxPairs pairs, with keys of one kind (u8 or
\* string) drawn with repetition, and bool values
MaxPairs == 2

KeyKinds == {"tU8", "tString"}

MapKeys(k) ==
    IF k = "tU8" THEN {valInt(8, 0), valInt(8, 7)}
    ELSE {valStr(<<>>), valStr(<<104>>)}

PairSeqs(k) ==
    SeqsUpTo({[k |-> key, v |-> valBool(b)] : key \in MapKeys(k), b \in {FALSE, TRUE}}, MaxPairs)

\* the content of a Map TLV with these pairs, as a writer that checks nothing lays
\* it out: [key type][value type] and for every pair the key and the value without
\* their type bytes
RECURSIVE PairBytes(_)
PairBytes(pairs) ==
    IF Len(pairs) = 0 THEN <<>>
    ELSE Drop(encodeValueTLV(pairs[1].k).out, 1) \o Drop(encodeValueTLV(pairs[1].v).out, 1)
             \o PairBytes(Drop(pairs, 1))

MapContent(k, pairs) == <<typeID(k)[1], 1>> \o PairBytes(pairs)

MapContents == UNION {{MapContent(k, pairs) : pairs \in PairSeqs(k)} : k \in KeyKinds}

\* inputs of the composite readers: a frame of any of these type bytes around up
\* to MaxContentLen content bytes, in either length form
MaxContentLen == 3

FrameTypes == {15, 16, 17, 18, 143}

ContentBytes == {0, 4, 14, 128, 255}

FrameContents == SeqsUpTo(ContentBytes, MaxContentLen)

FrameWire(ty, content, form) == <<ty>> \o LenPrefix(Len(content), form) \o content

\* inputs of readTLVBytes: a type byte from in and out of the type table, then a
\* length prefix in either form, up to MaxValueLen content bytes and what follows
\* the TLV in the payload, or a prefix cut short
MaxValueLen == 4

ExtractTypes == {0, 1, 4, 14, 17, 19, 20, 127, 128, 255}

ExtractTails ==
    {LenPrefix(n, form) \o [i \in 1..n |-> 7] \o rest :
       n \in 0..MaxValueLen, form \in {"short", "long"}, rest \in {<<>>, <<9>>}}
        \cup {<<>>, <<5>>, <<5, 0>>}

ExtractInputs == {<<ty>> \o tail : ty \in ExtractTypes, tail \in ExtractTails}

\* a Struct TLV whose one field has the id and these bytes after it
FieldWire(id, bytes) == <<17>> \o LenPrefix(1 + Len(bytes), "short") \o <<id>> \o bytes

FieldTargets == {Simple, OptString, Outer}

\* struct literals given to EncodeBytes: up to MaxEntries entries, in any order, with
\* ids in and out of 0..127 and a value (true, 7u32) or none
MaxEntries == 3

TextIds == {-1, 0, 1, 5, 128, 256}

TextEntries ==
    {field(id, v, FALSE) : id \in TextIds, v \in {valBool(TRUE), valInt(32, U32(7))}}
        \cup {field(id, valNone, TRUE) : id \in TextIds}

Literals == SeqsUpTo(TextEntries, MaxEntries)

(***************************************************************************)
(* The specification: one call, from "idle" to "done".  Marshal may be     *)
(* followed by Unmarshal of the bytes it returned into a zero value of the *)
(* same type (assertRoundtrip), and EncodeLen by DecodeLen of the bytes it *)
(* wrote (TestLengthsEncodeDecode).                                        *)
(***************************************************************************)
Init ==
    /\ op = "none"
    /\ arg = <<>>
    /\ res = <<>>
    /\ pc = "idle"
    /\ bufPool = [b \in Buffers |-> 0]
    /\ made = 0
    /\ collected = {}
    /\ staged = [b \in Buffers |-> 0]
    /\ frames = [g \in Encoders |-> <<>>]
    /\ status = [g \in Encoders |-> "ready"]
    /\ acquired = [g \in Encoders |-> 0]
    /\ returned = [g \in Encoders |-> 0]
    /\ sink = [g \in Encoders |-> 0]

MarshalCall ==
    /\ pc = "idle"
    /\ \E t \in AggregateTypes : \E v \in Vals(t) :
          /\ arg' = [type |-> t, value |-> v]
          /\ res' = Marshal(t, v)
    /\ op' = "Marshal"
    /\ pc' = "marshalled"
    /\ UNCHANGED poolVars

UnmarshalOutput ==
    /\ pc = "marshalled"
    /\ res.err.Kind = "nil"
    /\ op' = "RoundTrip"
    /\ arg' = [type |-> arg.type, value |-> arg.value, data |-> res.out]
    /\ res' = Unmarshal(res.out, PtrTo(arg.type), <<Zero(arg.type)>>)
    /\ pc' = "done"
    /\ UNCHANGED poolVars

UnmarshalStruct ==
    /\ pc = "idle"
    /\ \E t \in StructTargets : \E x \in Targets(t) : \E plan \in Plans :
       \E form \in {"short", "long"} :
          /\ arg' = [type |-> t, target |-> x, plan |-> plan, form |-> form,
                     data |-> StructWire(plan, form)]
          /\ res' = Unmarshal(StructWire(plan, form), PtrTo(t), <<x>>)
    /\ op' = "UnmarshalStruct"
    /\ pc' = "done"
    /\ UNCHANGED poolVars

UnmarshalEnum ==
    /\ pc = "idle"
    /\ \E t \in EnumTargets : \E x \in Targets(t) : \E vid \in VariantIds :
       \E k \in 1..Len(SampleTLVs) : \E extra \in Extras : \E form \in {"short", "long"} :
          /\ arg' = [type |-> t, target |-> x, vid |-> vid, sample |-> k, extra |-> extra,
                     form |-> form, data |-> EnumWire(vid, k, extra, form)]
          /\ res' = Unmarshal(EnumWire(vid, k, extra, form), PtrTo(t), <<x>>)
    /\ op' = "UnmarshalEnum"
    /\ pc' = "done"
    /\ UNCHANGED poolVars

UnmarshalRaw ==
    /\ pc = "idle"
    /\ \E t \in RawTargets : \E data \in RawInputs :
          /\ arg' = [type |-> t, target |-> Zero(t), data |-> data]
          /\ res' = Unmarshal(data, PtrTo(t), <<Zero(t)>>)
    /\ op' = "UnmarshalRaw"
    /\ pc' = "done"
    /\ UNCHANGED poolVars

UnmarshalDamaged ==
    /\ pc = "idle"
    /\ \E t \in DamagedTargets : \E data \in DamagedInputs :
          /\ arg' = [type |-> t, target |-> Zero(t), data |-> data]
          /\ res' = Unmarshal(data, PtrTo(t), <<Zero(t)>>)
    /\ op' = "UnmarshalDamaged"
    /\ pc' = "done"
    /\ UNCHANGED poolVars

SkipValueCall ==
    /\ pc = "idle"
    /\ \E k \in 1..Len(SampleTLVs) : \E rest \in Extras :
          /\ arg' = [sample |-> k, rest |-> rest, data |-> SampleTLVs[k].bytes \o rest]
          /\ res' = SkipValue(SampleTLVs[k].bytes \o rest)
    /\ op' = "SkipValue"
    /\ pc' = "done"
    /\ UNCHANGED poolVars

EncodeLenCall ==
    /\ pc = "idle"
    /\ \E n \in LenVals :
          /\ arg' = [n |-> n]
          /\ res' = [size |-> SizeOfLen(n), enc |-> EncodeLen(Zeros(4), n)]
    /\ op' = "EncodeLen"
    /\ pc' = "encoded"
    /\ UNCHANGED poolVars

DecodeLenOutput ==
    /\ pc = "encoded"
    /\ op' = "LenRoundTrip"
    /\ arg' = [n |-> arg.n, size |-> res.size, enc |-> res.enc]
    /\ res' = DecodeLen(Take(res.enc.dst, res.enc.n))
    /\ pc' = "done"
    /\ UNCHANGED poolVars

DecodeLenCall ==
    /\ pc = "idle"
    /\ \E src \in LenSrcs :
          /\ arg' = [src |-> src]
          /\ res' = DecodeLen(src)
    /\ op' = "DecodeLen"
    /\ pc' = "done"
    /\ UNCHANGED poolVars

WriteArrayCall ==
    /\ pc = "idle"
    /\ \E elemType \in WriterIDs : \E gen \in ClosureResults :
          /\ arg' = [elemType |-> elemType, gen |-> gen]
          /\ res' = WriteArrayTLV(elemType, gen)
    /\ op' = "WriteArrayTLV"
    /\ pc' = "done"
    /\ UNCHANGED poolVars

WriteMapCall ==
    /\ pc = "idle"
    /\ \E keyType \in WriterIDs : \E valueType \in WriterIDs : \E gen \in ClosureResults :
          /\ arg' = [keyType |-> keyType, valueType |-> valueType, gen |-> gen]
          /\ res' = WriteMapTLV(keyType, valueType, gen)
    /\ op' = "WriteMapTLV"
    /\ pc' = "done"
    /\ UNCHANGED poolVars

WriteStructCall ==
    /\ pc = "idle"
    /\ \E gen \in ClosureResults :
          /\ arg' = [gen |-> gen]
          /\ res' = WriteStructTLV(gen)
    /\ op' = "WriteStructTLV"
    /\ pc' = "done"
    /\ UNCHANGED poolVars

WriteEnumCall ==
    /\ pc = "idle"
    /\ \E variantID \in WriterIDs : \E gen \in ClosureResults :
          /\ arg' = [variantID |-> variantID, gen |-> gen]
          /\ res' = WriteEnumTLV(variantID, gen)
    /\ op' = "WriteEnumTLV"
    /\ pc' = "done"
    /\ UNCHANGED poolVars

EncodeMapCall ==
    /\ pc = "idle"
    /\ \E k \in KeyKinds : \E pairs \in PairSeqs(k) :
          /\ arg' = [key |-> k, elem |-> "tBool", pairs |-> pairs]
          /\ res' = encodeValueTLV(valMap(k, "tBool", pairs))
    /\ op' = "encodeValueTLV"
    /\ pc' = "done"
    /\ UNCHANGED poolVars

ReadArrayCall ==
    /\ pc = "idle"
    /\ \E ty \in FrameTypes : \E content \in FrameContents : \E form \in {"short", "long"} :
          /\ arg' = [typeID |-> ty, content |-> content, form |-> form,
                     data |-> FrameWire(ty, content, form)]
          /\ res' = ReadArrayTLV(FrameWire(ty, content, form))
    /\ op' = "ReadArrayTLV"
    /\ pc' = "done"
    /\ UNCHANGED poolVars

ReadStructCall ==
    /\ pc = "idle"
    /\ \E ty \in FrameTypes : \E content \in FrameContents : \E form \in {"short", "long"} :
          /\ arg' = [typeID |-> ty, content |-> content, form |-> form,
                     data |-> FrameWire(ty, content, form)]
          /\ res' = ReadStructTLV(FrameWire(ty, content, form))
    /\ op' = "ReadStructTLV"
    /\ pc' = "done"
    /\ UNCHANGED poolVars

ReadEnumCall ==
    /\ pc = "idle"
    /\ \E ty \in FrameTypes : \E content \in FrameContents : \E form \in {"short", "long"} :
          /\ arg' = [typeID |-> ty, content |-> content, form |-> form,
                     data |-> FrameWire(ty, content, form)]
          /\ res' = ReadEnumTLV(FrameWire(ty, content, form))
    /\ op' = "ReadEnumTLV"
    /\ pc' = "done"
    /\ UNCHANGED poolVars

ReadMapCall ==
    /\ pc = "idle"
    /\ \E ty \in FrameTypes : \E content \in FrameContents \cup MapContents :
       \E form \in {"short", "long"} :
          /\ arg' = [typeID |-> ty, content |-> content, form |-> form,
                     data |-> FrameWire(ty, content, form)]
          /\ res' = ReadMapTLV(FrameWire(ty, content, form))
    /\ op' = "ReadMapTLV"
    /\ pc' = "done"
    /\ UNCHANGED poolVars

\* ReadBoolTLV on a Bool TLV with any content byte
ReadBoolCall ==
    /\ pc = "idle"
    /\ \E b \in 0..255 :
          /\ arg' = [content |-> b, data |-> <<1, b>>]
          /\ res' = ReadBoolTLV(<<1, b>>)
    /\ op' = "ReadBoolTLV"
    /\ pc' = "done"
    /\ UNCHANGED poolVars

WriteBoolCall ==
    /\ pc = "idle"
    /\ \E v \in BOOLEAN :
          /\ arg' = [v |-> v]
          /\ res' = WriteBoolTLV(v)
    /\ op' = "WriteBoolTLV"
    /\ pc' = "done"
    /\ UNCHANGED poolVars

\* EncodeBytes of the document "struct { entries }"
EncodeBytesCall ==
    /\ pc = "idle"
    /\ \E entries \in Literals :
          /\ arg' = [fields |-> entries, nested |-> FALSE]
          /\ res' = EncodeBytes(valStruct(entries))
    /\ op' = "EncodeBytes"
    /\ pc' = "done"
    /\ UNCHANGED poolVars

\* EncodeBytes of the document "struct { 0: struct { entries } }"
EncodeNestedCall ==
    /\ pc = "idle"
    /\ \E entries \in Literals :
          /\ arg' = [fields |-> entries, nested |-> TRUE]
          /\ res' = EncodeBytes(valStruct(<<field(0, valStruct(entries), FALSE)>>))
    /\ op' = "EncodeBytes"
    /\ pc' = "done"
    /\ UNCHANGED poolVars

\* readTLVBytes on a reader over the rest of a struct payload
ReadTLVBytesCall ==
    /\ pc = "idle"
    /\ \E data \in ExtractInputs :
          /\ arg' = [data |-> data]
          /\ res' = readTLVBytes(data)
    /\ op' = "readTLVBytes"
    /\ pc' = "done"
    /\ UNCHANGED poolVars

\* Unmarshal of a Struct TLV with one field, bound (id 0 or 1) or not (id 5)
UnmarshalField ==
    /\ pc = "idle"
    /\ \E t \in FieldTargets : \E id \in WireIds : \E e \in ExtractInputs :
          /\ arg' = [type |-> t, target |-> Zero(t), id |-> id, field |-> e,
                     data |-> FieldWire(id, e)]
          /\ res' = Unmarshal(FieldWire(id, e), PtrTo(t), <<Zero(t)>>)
    /\ op' = "UnmarshalField"
    /\ pc' = "done"
    /\ UNCHANGED poolVars

(***************************************************************************)
(* The composite writers of parallel encoders, step by step: the check of  *)
(* the id byte, GetBuffer, the closure, the frame written to w, and the    *)
(* deferred PutBuffer on return.                                           *)
(***************************************************************************)
\* encoder g is about to call a composite writer: at the top level, or from the
\* closure of the writer it is in
CanCall(g) ==
    \/ status[g] = "ready"
    \/ /\ status[g] = "running"
       /\ Len(frames[g]) < MaxDepth
       /\ frames[g][Len(frames[g])].pc = "closure"
       /\ frames[g][Len(frames[g])].items < MaxItems

\* the caller's frame counts one more item
Counted(stack) ==
    IF Len(stack) = 0 THEN stack ELSE [stack EXCEPT ![Len(stack)].items = @ + 1]

\* WriteArrayTLV, WriteMapTLV or WriteEnumTLV given an id byte with bit 7 set: the
\* writer returns errInvalidTypeID before GetBuffer
WriterRejectsID ==
    /\ \E g \in Encoders :
          /\ CanCall(g)
          /\ frames' = [frames EXCEPT ![g] = Resume(Counted(frames[g]), TRUE)]
          /\ status' = [status EXCEPT ![g] = IF Len(frames[g]) = 0 THEN "failed" ELSE "running"]
    /\ UNCHANGED <<bufPool, made, collected, staged, acquired, returned, sink>>
    /\ UNCHANGED codecVars

\* buf := GetBuffer(); defer PutBuffer(buf)
WriterAcquires ==
    /\ \E g \in Encoders : \E got \in PoolGet(bufPool, made) :
          /\ CanCall(g)
          /\ bufPool' = got.pool
          /\ made' = got.made
          /\ staged' = [staged EXCEPT ![got.b] = 0]
          /\ frames' = [frames EXCEPT ![g] = Append(Counted(frames[g]), NewFrame(got.b))]
          /\ status' = [status EXCEPT ![g] = "running"]
          /\ acquired' = [acquired EXCEPT ![g] = @ + 1]
    /\ UNCHANGED <<collected, returned, sink>>
    /\ UNCHANGED codecVars

\* the closure writes a primitive to the scratch buffer
ClosureWrites ==
    /\ \E g \in Encoders :
          /\ status[g] = "running"
          /\ frames[g][Len(frames[g])].pc = "closure"
          /\ frames[g][Len(frames[g])].items < MaxItems
          /\ staged' = [staged EXCEPT ![frames[g][Len(frames[g])].buf] = @ + 1]
          /\ frames' = [frames EXCEPT ![g][Len(frames[g])].items = @ + 1,
                                      ![g][Len(frames[g])].wrote = @ + 1]
    /\ UNCHANGED <<bufPool, made, collected, status, acquired, returned, sink>>
    /\ UNCHANGED codecVars

\* the closure returns: nil, and the writer goes on to write the frame, or an error,
\* and the writer returns it
ClosureReturns ==
    /\ \E g \in Encoders : \E err \in BOOLEAN :
          /\ status[g] = "running"
          /\ frames[g][Len(frames[g])].pc = "closure"
          /\ frames' = [frames EXCEPT ![g][Len(frames[g])].pc = IF err THEN "return" ELSE "emit",
                                      ![g][Len(frames[g])].err = err]
    /\ UNCHANGED <<bufPool, made, collected, staged, status, acquired, returned, sink>>
    /\ UNCHANGED codecVars

\* [type][len][buf.Bytes()] written to w: the scratch buffer of the calling writer,
\* or the encoder's sink, whose Write may fail
WriterEmits ==
    /\ \E g \in Encoders : \E fails \in BOOLEAN :
          /\ status[g] = "running"
          /\ frames[g][Len(frames[g])].pc = "emit"
          /\ IF Len(frames[g]) > 1
             THEN /\ ~fails
                  /\ staged' = [staged EXCEPT ![frames[g][Len(frames[g]) - 1].buf] = @ + 1]
                  /\ frames' = [frames EXCEPT ![g][Len(frames[g])].pc = "return",
                                              ![g][Len(frames[g]) - 1].wrote = @ + 1]
                  /\ sink' = sink
             ELSE /\ staged' = staged
                  /\ frames' = [frames EXCEPT ![g][Len(frames[g])].pc = "return",
                                              ![g][Len(frames[g])].err = fails]
                  /\ sink' = [sink EXCEPT ![g] = IF fails THEN @ ELSE @ + 1]
    /\ UNCHANGED <<bufPool, made, collected, status, acquired, returned>>
    /\ UNCHANGED codecVars

\* the writer returns: the deferred PutBuffer(buf) runs, and the caller goes on
WriterReturns ==
    /\ \E g \in Encoders :
          /\ status[g] = "running"
          /\ frames[g][Len(frames[g])].pc = "return"
          /\ bufPool' = PutBuffer(bufPool, frames[g][Len(frames[g])].buf)
          /\ returned' = [returned EXCEPT ![g] = @ + 1]
          /\ frames' = [frames EXCEPT ![g] = Resume(Take(frames[g], Len(frames[g]) - 1),
                                                    frames[g][Len(frames[g])].err)]
          /\ status' = [status EXCEPT ![g] =
                          IF Len(frames[g]) > 1 THEN "running"
                          ELSE IF frames[g][1].err THEN "failed" ELSE "ok"]
    /\ UNCHANGED <<made, collected, staged, acquired, sink>>
    /\ UNCHANGED codecVars

\* the garbage collector takes a buffer that lies in the pool
PoolCollects ==
    /\ Cardinality(collected) < MaxCollected
    /\ \E b \in Buffers :
          /\ bufPool[b] > 0
          /\ bufPool' = [bufPool EXCEPT ![b] = @ - 1]
          /\ collected' = collected \cup {b}
    /\ UNCHANGED <<made, staged, frames, status, acquired, returned, sink>>
    /\ UNCHANGED codecVars

PoolNext ==
    \/ WriterRejectsID
    \/ WriterAcquires
    \/ ClosureWrites
    \/ ClosureReturns
    \/ WriterEmits
    \/ WriterReturns
    \/ PoolCollects

PoolSpec == Init /\ [][PoolNext]_vars

(***************************************************************************)
(* One Decoder on a source holding several TLVs one after another, and one *)
(* Encoder on a sink: NewDecoder and NewEncoder keep the reader and the    *)
(* writer they are given; every Decode reads on from where the last call   *)
(* left the reader, every Encode writes after what the last call wrote.    *)
(***************************************************************************)
\* the number of calls made on one Decoder or Encoder
MaxCalls == 2

\* complete TLVs of the source: a uint32, a bool, a string whose length below 128
\* has the 4-byte form, a Struct with either form of prefix, an Enum, and the empty Struct
StreamTLVs == {SampleTLVs[k].bytes : k \in {1, 2, 4, 5, 6, 8}} \cup {<<17, 0>>}

Streams == SeqsUpTo(StreamTLVs, MaxCalls) \ {<<>>}

\* the types of the targets handed to Decode
StreamTargets == {TBool, TUint32, TString, Simple, SimpleEnum}

\* the values handed to Encode
StreamValues ==
    { [type |-> TBool, value |-> TRUE],
      [type |-> TUint32, value |-> U32(42)],
      [type |-> TString, value |-> <<104, 105>>],
      [type |-> Simple, value |-> <<U32(42)>>],
      [type |-> PtrTo(Simple), value |-> <<>>],
      [type |-> SimpleEnum, value |-> Filled(SimpleEnum)],
      [type |-> SimpleEnum, value |-> [Zero(SimpleEnum) EXCEPT ![1] = <<U32(42)>>]] }

\* the bytes of the sequences of q, one after another
RECURSIVE Concat(_)
Concat(q) == IF Len(q) = 0 THEN <<>> ELSE q[1] \o Concat(Drop(q, 1))

\* NewDecoder(r): r holds the TLVs of a stream
NewDecoder ==
    /\ pc = "idle"
    /\ \E s \in Streams :
          /\ arg' = [stream |-> s, types |-> <<>>]
          /\ res' = [r |-> Concat(s), calls |-> <<>>]
    /\ op' = "Decode"
    /\ pc' = "decoding"
    /\ UNCHANGED poolVars

\* d.Decode(&v) with v a zero value of type t; calls keeps the error, the value
\* and the reader after every call
DecodeCall ==
    /\ pc = "decoding"
    /\ Len(res.calls) < MaxCalls
    /\ \E t \in StreamTargets :
          LET Called(d) == [r |-> d.r, calls |-> Append(res.calls, d)]
          IN  /\ arg' = [arg EXCEPT !.types = Append(@, t)]
              /\ res' = Called(Decode(PtrTo(t), <<Zero(t)>>, res.r))
    /\ UNCHANGED <<op, pc>>
    /\ UNCHANGED poolVars

\* NewEncoder(w): w is an empty buffer
NewEncoder ==
    /\ pc = "idle"
    /\ arg' = [values |-> <<>>]
    /\ res' = [w |-> <<>>, errs |-> <<>>]
    /\ op' = "Encode"
    /\ pc' = "encoding"
    /\ UNCHANGED poolVars

\* e.Encode(v): encodeValue writes to e.w
EncodeCall ==
    /\ pc = "encoding"
    /\ Len(res.errs) < MaxCalls
    /\ \E x \in StreamValues :
          LET Called(e) == [w |-> res.w \o e.out, errs |-> Append(res.errs, e.err)]
          IN  /\ arg' = [arg EXCEPT !.values = Append(@, x)]
              /\ res' = Called(encodeValue(x.type, x.value))
    /\ UNCHANGED <<op, pc>>
    /\ UNCHANGED poolVars

(***************************************************************************)
(* internal.ReadFull on an io.Reader of any behaviour, one Read at a time.  *)
(* The reader is a script of responses [n, err]: the number of bytes it     *)
(* offers and the error it returns with them; the last response of the      *)
(* script is given again for every later Read.  A Read into p returns at    *)
(* most len(p) bytes.                                                       *)
(***************************************************************************)
MaxBufLen == 3

MaxChunk == 2

MaxScript == 3

ReaderErrors == {NoErr, ioEOF, PlainError("read failed")}

Responses == {[n |-> n, err |-> e] : n \in 0..MaxChunk, e \in ReaderErrors}

ReaderScripts == SeqsUpTo(Responses, MaxScript) \ {<<>>}

\* ReadFull(r, buf) is called: off is 0, and the loop is entered when len(buf) > 0
ReadFullCall ==
    /\ pc = "idle"
    /\ \E k \in 0..MaxBufLen : \E script \in ReaderScripts :
          /\ arg' = [k |-> k, script |-> script]
          /\ res' = [off |-> 0, err |-> NoErr, script |-> script,
                     last |-> [n |-> 0, err |-> NoErr]]
          /\ pc' = IF 0 < k THEN "reading" ELSE "done"
    /\ op' = "ReadFull"
    /\ UNCHANGED poolVars

\* one iteration of the loop: the reader answers the Read with the head of its script
ReaderRead ==
    /\ pc = "reading"
    /\ LET rd == [n |-> Min(res.script[1].n, arg.k - res.off), err |-> res.script[1].err]
           it == ReadFullIteration(arg.k, res.off, rd)
       IN  /\ res' = [off |-> it.off, err |-> it.err,
                      script |-> IF Len(res.script) > 1 THEN Drop(res.script, 1)
                                 ELSE res.script,
                      last |-> rd]
           /\ pc' = IF it.returned THEN "done" ELSE "reading"
    /\ UNCHANGED <<op, arg>>
    /\ UNCHANGED poolVars

ReadNext ==
    \/ ReadFullCall
    \/ ReaderRead

\* the goroutine that called ReadFull keeps running
ReadSpec == Init /\ [][ReadNext]_vars /\ WF_vars(ReaderRead)

Next ==
    \/ MarshalCall
    \/ UnmarshalOutput
    \/ UnmarshalStruct
    \/ UnmarshalEnum
    \/ UnmarshalRaw
    \/ UnmarshalDamaged
    \/ SkipValueCall
    \/ EncodeLenCall
    \/ DecodeLenOutput
    \/ DecodeLenCall
    \/ WriteArrayCall
    \/ WriteMapCall
    \/ WriteStructCall
    \/ WriteEnumCall
    \/ ReadArrayCall
    \/ ReadStructCall
    \/ ReadEnumCall
    \/ ReadMapCall
    \/ EncodeMapCall
    \/ ReadTLVBytesCall
    \/ UnmarshalField
    \/ ReadBoolCall
    \/ WriteBoolCall
    \/ EncodeBytesCall
    \/ EncodeNestedCall
    \/ NewDecoder
    \/ DecodeCall
    \/ NewEncoder
    \/ EncodeCall

Spec == Init /\ [][Next]_vars

(***************************************************************************)
(* Reading the wire without the decoder: the value of a length prefix, the *)
(* size of a TLV all of whose frames are exact, the fields of a Struct     *)
(* payload.                                                                *)
(***************************************************************************)
\* <<declared length, bytes of the prefix>>; <<-1, 0>> when b holds no prefix
PrefixValue(b) ==
    IF Len(b) = 0 THEN <<-1, 0>>
    ELSE IF b[1] % 2 = 0 THEN <<b[1] \div 2, 1>>
    ELSE IF Len(b) < 4 THEN <<-1, 0>>
    ELSE <<(b[1] \div 2) + 128 * b[2] + 32768 * b[3] + 8388608 * b[4], 4>>

\* out is [ty][prefix][content] and the prefix declares Len(content)
FrameExact(out, ty, content) ==
    /\ Len(out) >= 2
    /\ out[1] = ty
    /\ PrefixValue(Drop(out, 1))[2] > 0
    /\ PrefixValue(Drop(out, 1))[1] = Len(out) - 1 - PrefixValue(Drop(out, 1))[2]
    /\ Drop(out, 1 + PrefixValue(Drop(out, 1))[2]) = content

RECURSIVE TLVSize(_)
RECURSIVE FieldsExact(_)

\* the number of bytes of the TLV at the head of b, when the declared length of every
\* Struct and Enum in it, at every depth, is the number of bytes of its content; -1
\* otherwise
TLVSize(b) ==
    LET Framed(p) ==
            IF p[2] = 0 \/ Len(b) < 1 + p[2] + p[1] THEN -1
            ELSE IF b[1] \in {14, 15, 16} THEN 1 + p[2] + p[1]
            ELSE IF b[1] = 17
            THEN IF FieldsExact(SubSeq(b, 2 + p[2], 1 + p[2] + p[1]))
                 THEN 1 + p[2] + p[1] ELSE -1
            ELSE IF p[1] >= 1 /\ TLVSize(SubSeq(b, 3 + p[2], 1 + p[2] + p[1])) = p[1] - 1
                 THEN 1 + p[2] + p[1] ELSE -1
        Sized(k) == IF Len(b) >= 1 + k THEN 1 + k ELSE -1
    IN  IF Len(b) = 0 THEN -1
        ELSE CASE b[1] = 0 -> 1
               [] b[1] \in {1, 2} -> Sized(1)
               [] b[1] = 4 -> Sized(4)
               [] b[1] \in {14, 15, 16, 17, 18} -> Framed(PrefixValue(Drop(b, 1)))
               [] OTHER -> -1

\* c is a sequence of [field id][TLV], each TLV exact
FieldsExact(c) ==
    LET Rest(k) == k > 0 /\ FieldsExact(Drop(c, 1 + k))
    IN  Len(c) = 0 \/ Rest(TLVSize(Drop(c, 1)))

\* the fields [id, tlv] of a Struct payload c for which FieldsExact holds
RECURSIVE FieldsOf(_)
FieldsOf(c) ==
    LET Cut(k) == <<[id |-> c[1], tlv |-> SubSeq(c, 2, 1 + k)]>> \o FieldsOf(Drop(c, 1 + k))
    IN  IF Len(c) = 0 THEN <<>> ELSE Cut(TLVSize(Drop(c, 1)))

\* the payload of the Struct TLV out
PayloadOf(out) == Drop(out, 1 + PrefixValue(Drop(out, 1))[2])

(***************************************************************************)
(* Reading the inputs: what a wire plan asks of a target type.             *)
(***************************************************************************)
\* the index of the field of t that the tags bind to id; 0 when there is none
BoundIndex(t, id) ==
    LET bound == {i \in 1..Len(t.fields) : ~t.fields[i].tag.dash /\ t.fields[i].tag.id = id}
    IN  IF bound = {} THEN 0 ELSE CHOOSE i \in bound : \A j \in bound : j <= i

\* the sample TLV k carries a value for a field of type ft
Carries(k, ft) ==
    LET Of(et) ==
            CASE et = Simple -> SampleTLVs[k].kind = "Struct"
              [] et = SimpleEnum -> SampleTLVs[k].kind = "Enum"
              [] et.kind = "Struct" -> FALSE
              [] OTHER -> SampleTLVs[k].kind = et.kind
    IN  Of(IF ft.kind = "Pointer" THEN ft.elem ELSE ft)

\* what a field of type ft holds once it has the value of the sample TLV k
Held(k, ft) == IF ft.kind = "Pointer" THEN <<SampleTLVs[k].value>> ELSE SampleTLVs[k].value

\* the field ids of the plan are strictly increasing
Increasing(plan) == \A j \in 2..Len(plan) : plan[j - 1][1] < plan[j][1]

\* the first position of the plan whose id is not above the id before it; 0 when none
FirstDisorder(plan) ==
    IF Increasing(plan) THEN 0
    ELSE CHOOSE j \in 2..Len(plan) :
            /\ plan[j][1] <= plan[j - 1][1]
            /\ \A i \in 2..(j - 1) : plan[i - 1][1] < plan[i][1]

\* the first upto fields of the plan are unknown to t or carry a value of the type of
\* the field they are bound to
Fits(t, plan, upto) ==
    \A j \in 1..upto :
       \/ BoundIndex(t, plan[j][1]) = 0
       \/ Carries(plan[j][2], t.fields[BoundIndex(t, plan[j][1])].type)

DashFields(t) == {i \in 1..Len(t.fields) : t.fields[i].tag.dash}

\* t without its fields tagged "-", and a value of t without them
WithoutDash(t) == StructOf(SelectSeq(t.fields, LAMBDA f : ~f.tag.dash))

RECURSIVE KeptValues(_, _, _)
KeptValues(t, v, i) ==
    IF i > Len(t.fields) THEN <<>>
    ELSE (IF t.fields[i].tag.dash THEN <<>> ELSE <<v[i]>>) \o KeptValues(t, v, i + 1)

OptionalFields(t) ==
    {i \in 1..Len(t.fields) :
       ~t.fields[i].tag.dash /\ t.fields[i].tag.optional /\ t.fields[i].type.kind = "Pointer"}

UnmarshalOps ==
    {"RoundTrip", "UnmarshalStruct", "UnmarshalEnum", "UnmarshalRaw", "UnmarshalDamaged"}

(***************************************************************************)
(* Properties                                                              *)
(***************************************************************************)
\* C1: round trip.  Unmarshal of the bytes Marshal returned for v, into a zero value
\* of v's type, succeeds and leaves a value equal to v (v's fields tagged "-", which
\* are not bound, being zero).
C1_RoundTrip ==
    (op = "RoundTrip" /\ \A i \in DashFields(arg.type) : arg.value[i] = Zero(arg.type)[i])
    => res.err.Kind = "nil" /\ res.v = <<arg.value>>

\* a nil *uint32 field that is not optional comes back as a pointer to 0
C1_NilPointerComesBackSet ==
    /\ op = "RoundTrip"
    /\ arg.type = WithPtr
    /\ arg.value = << <<>> >>
    /\ arg.data = <<17, 12, 0, 4, 0, 0, 0, 0>>
    /\ res.err.Kind = "nil"
    /\ res.v = << << <<U32(0)>> >> >>

\* C2: field order.  Decoding a Struct fails with ErrFieldOrder at the first field id
\* that is not above the id before it (the fields before it being decodable), and a
\* Struct whose field ids are strictly increasing and whose bound fields carry TLVs of
\* their fields' types decodes without error.
C2_FieldOrderEnforced ==
    op = "UnmarshalStruct" =>
       /\ (FirstDisorder(arg.plan) > 0
             /\ Fits(arg.type, arg.plan, FirstDisorder(arg.plan) - 1))
          => res.err.Kind = "ErrFieldOrder"
       /\ (Increasing(arg.plan) /\ Fits(arg.type, arg.plan, Len(arg.plan)))
          => res.err.Kind = "nil"

\* a nested Struct whose length is written in the 4-byte form is refused
C2_LongFormNestedStructRefused ==
    /\ op = "UnmarshalStruct"
    /\ arg.type = Outer
    /\ arg.target = Zero(Outer)
    /\ arg.plan = << <<0, 6>> >>
    /\ arg.data = <<17, 24, 0, 17, 13, 0, 0, 0, 0, 4, 42, 0, 0, 0>>
    /\ res.err = PlainError("unexpected type id for u32")

\* C3: forward compatibility.  Decoding a Struct with field ids the target does not
\* bind succeeds, and every bound field on the wire holds afterwards the value its own
\* TLV carries.
C3_UnknownFieldsSkipped ==
    (/\ op = "UnmarshalStruct"
     /\ Increasing(arg.plan)
     /\ Fits(arg.type, arg.plan, Len(arg.plan))
     /\ \E j \in 1..Len(arg.plan) : BoundIndex(arg.type, arg.plan[j][1]) = 0)
    => /\ res.err.Kind = "nil"
       /\ \A j \in 1..Len(arg.plan) :
             BoundIndex(arg.type, arg.plan[j][1]) # 0
             => res.v[1][BoundIndex(arg.type, arg.plan[j][1])]
                  = Held(arg.plan[j][2],
                         arg.type.fields[BoundIndex(arg.type, arg.plan[j][1])].type)

\* a bound string before an unknown field, its length in the 4-byte form, is decoded
\* to two zero bytes instead of "hi"
C3_BoundStringBesideUnknownField ==
    /\ op = "UnmarshalStruct"
    /\ arg.type = OptString
    /\ arg.target = Zero(OptString)
    /\ arg.plan = << <<1, 4>>, <<5, 1>> >>
    /\ arg.form = "short"
    /\ res.err.Kind = "nil"
    /\ res.v[1][2] = << <<0, 0>> >>

\* C4: Enum exact length.  Decoding an Enum in which bytes follow the variant id and
\* the complete TLV of the variant's type, inside the declared length, fails with
\* ErrEnumLengthMismatch, whatever the variant's type.
C4_EnumTrailingBytes ==
    (/\ op = "UnmarshalEnum"
     /\ arg.extra # <<>>
     /\ BoundIndex(arg.type, arg.vid) # 0
     /\ Carries(arg.sample, arg.type.fields[BoundIndex(arg.type, arg.vid)].type))
    => res.err.Kind = "ErrEnumLengthMismatch"

\* a uint8 variant followed by one byte is refused as not implemented
C4_Uint8VariantNotImplemented ==
    /\ op = "UnmarshalEnum"
    /\ arg.type = EnumU8
    /\ arg.vid = 0
    /\ arg.sample = 7
    /\ arg.extra = <<255>>
    /\ arg.data = <<18, 8, 0, 2, 7, 255>>
    /\ res.err = ErrNotImplemented

\* C5: a field tagged "-" is not written by Marshal (the bytes are those of the value
\* without the field) and holds after a successful Unmarshal what it held before.
C5_SkipFieldUntouched ==
    /\ (op = "Marshal" /\ DashFields(arg.type) # {})
       => res = Marshal(WithoutDash(arg.type), KeptValues(arg.type, arg.value, 1))
    /\ (op = "UnmarshalStruct" /\ res.err.Kind = "nil")
       => \A i \in DashFields(arg.type) : res.v[1][i] = arg.target[i]
    /\ (op = "RoundTrip" /\ res.err.Kind = "nil")
       => \A i \in DashFields(arg.type) : res.v[1][i] = Zero(arg.type)[i]

\* decoding into a WithSkip whose skip field is set: the bound field is assigned from
\* the wire, the unknown field is skipped, the skip field keeps its value
C5_SkipFieldKept ==
    /\ op = "UnmarshalStruct"
    /\ arg.type = WithSkip
    /\ arg.target = Filled(WithSkip)
    /\ arg.plan = << <<0, 1>>, <<1, 3>> >>
    /\ res.err.Kind = "nil"
    /\ res.v = << <<U32(42), <<112>>>> >>

\* C6: optional fields.  In the Struct Marshal writes, an optional field that is nil
\* has no [id][TLV] pair and one that is set has the pair of its id and its value's
\* TLV; after decoding into a zero value an optional field holds the value of its
\* TLV when its id is on the wire and is nil when it is not.
C6_OptionalFields ==
    /\ (op = "Marshal" /\ res.err.Kind = "nil" /\ res.out[1] = 17)
       => \A i \in OptionalFields(arg.type) :
             IF arg.value[i] = <<>>
             THEN \A k \in 1..Len(FieldsOf(PayloadOf(res.out))) :
                     FieldsOf(PayloadOf(res.out))[k].id # arg.type.fields[i].tag.id
             ELSE \E k \in 1..Len(FieldsOf(PayloadOf(res.out))) :
                     FieldsOf(PayloadOf(res.out))[k]
                       = [id |-> arg.type.fields[i].tag.id,
                          tlv |-> encodeValue(arg.type.fields[i].type, arg.value[i]).out]
    /\ (/\ op = "UnmarshalStruct"
        /\ arg.target = Zero(arg.type)
        /\ Increasing(arg.plan)
        /\ Fits(arg.type, arg.plan, Len(arg.plan)))
       => /\ res.err.Kind = "nil"
          /\ \A i \in OptionalFields(arg.type) :
                IF \E j \in 1..Len(arg.plan) : arg.plan[j][1] = arg.type.fields[i].tag.id
                THEN \E j \in 1..Len(arg.plan) :
                        /\ arg.plan[j][1] = arg.type.fields[i].tag.id
                        /\ res.v[1][i] = Held(arg.plan[j][2], arg.type.fields[i].type)
                ELSE res.v[1][i] = <<>>

\* an optional string whose length is in the 4-byte form ends up set, to two zero
\* bytes instead of "hi"
C6_OptionalStringWrongValue ==
    /\ op = "UnmarshalStruct"
    /\ arg.type = OptString
    /\ arg.target = Zero(OptString)
    /\ arg.plan = << <<1, 4>> >>
    /\ arg.data = <<17, 16, 1, 14, 5, 0, 0, 0, 104, 105>>
    /\ res.err.Kind = "nil"
    /\ res.v = << <<U32(0), << <<0, 0>> >> >> >>

\* C7: SkipValue at a complete TLV returns nil and leaves the reader at the first
\* byte after the TLV.
C7_SkipValueAdvances ==
    op = "SkipValue" => res.err.Kind = "nil" /\ res.r = arg.rest

\* SkipValue at a u32 TLV returns ErrNotImplemented and reads nothing
C7_SkipValueNotImplemented ==
    /\ op = "SkipValue"
    /\ arg.data = <<4, 42, 0, 0, 0, 255>>
    /\ res.err = ErrNotImplemented
    /\ res.r = arg.data

\* C8: length codec.  For n in 0..2^31-1 EncodeLen writes SizeOfLen(n) bytes, 1 when
\* n <= 127 and 4 otherwise, and DecodeLen of these bytes returns n and the same
\* count; DecodeLen of a single byte whose low bit is 1 returns (-1, 0).
C8_LengthCodecLaw ==
    /\ op = "EncodeLen"
       => /\ res.enc.n = res.size
          /\ res.size = IF arg.n <= 127 THEN 1 ELSE 4
    /\ op = "LenRoundTrip" => res = <<arg.n, arg.size>> /\ arg.enc.n = arg.size
    /\ (op = "DecodeLen" /\ Len(arg.src) = 1 /\ arg.src[1] % 2 = 1) => res = <<-1, 0>>

\* 128 is written as 01 01 00 00 and read back as (128, 4)
C8_LongFormRoundTrip ==
    /\ op = "LenRoundTrip"
    /\ arg.n = 128
    /\ arg.enc.dst = <<1, 1, 0, 0>>
    /\ res = <<128, 4>>

\* C9: prefix equality.  What a composite writer writes is its type byte, a prefix
\* that declares the number of bytes that follow it, and these bytes: the element type
\* and the closure's bytes for Array, both types and the closure's bytes for Map, the
\* closure's bytes for Struct, the variant id and the closure's bytes for Enum; and
\* in what Marshal returns every Struct and Enum, at every depth, declares the number
\* of bytes of its content.
C9_PrefixEquality ==
    /\ (op = "WriteArrayTLV" /\ res.err.Kind = "nil")
       => FrameExact(res.out, 15, <<arg.elemType>> \o arg.gen.out)
    /\ (op = "WriteMapTLV" /\ res.err.Kind = "nil")
       => FrameExact(res.out, 16, <<arg.keyType, arg.valueType>> \o arg.gen.out)
    /\ (op = "WriteStructTLV" /\ res.err.Kind = "nil")
       => FrameExact(res.out, 17, arg.gen.out)
    /\ (op = "WriteEnumTLV" /\ res.err.Kind = "nil")
       => FrameExact(res.out, 18, <<arg.variantID>> \o arg.gen.out)
    /\ (op = "Marshal" /\ res.err.Kind = "nil") => TLVSize(res.out) = Len(res.out)

\* a Map of 128 content bytes: its length is written in the 4-byte form
C9_LongFormMap ==
    /\ op = "WriteMapTLV"
    /\ res.err.Kind = "nil"
    /\ Len(arg.gen.out) = 126
    /\ Len(res.out) = 133
    /\ SubSeq(res.out, 1, 5) = <<16, 1, 1, 0, 0>>

BoundIds(t) ==
    {ParseRelishTag(t.fields[i]).id : i \in {j \in 1..Len(t.fields) : ParseRelishTag(t.fields[j]).ok}}

HasDuplicateIds(t) ==
    \E i, j \in 1..Len(t.fields) :
        /\ i < j
        /\ ParseRelishTag(t.fields[i]).ok
        /\ ParseRelishTag(t.fields[j]).ok
        /\ ParseRelishTag(t.fields[i]).id = ParseRelishTag(t.fields[j]).id

\* C11: encoding a value of a type with a repeated field id returns an error
C11_DuplicateIdsRejected ==
    (op = "Marshal" /\ HasDuplicateIds(arg.type)) => res.err.Kind # "nil"

\* Marshal of DupIds{42, 10} returns nil and a Struct with field id 0 twice
C11_StructCarriesIdTwice ==
    /\ op = "Marshal"
    /\ arg.type = DupIds
    /\ arg.value = <<U32(42), U32(10)>>
    /\ res.err.Kind = "nil"
    /\ res.out = <<17, 24, 0, 4, 42, 0, 0, 0, 0, 4, 10, 0, 0, 0>>

(***************************************************************************)
(* C12: an Enum TLV whose variant id no binding of the target has.         *)
(***************************************************************************)
\* the bindings of x (a value of type t) that hold a non-nil pointer
Present(t, x) ==
    {i \in 1..Len(t.fields) : t.fields[i].type.kind = "Pointer" /\ x[i] # <<>>}

\* C12: Unmarshal of an Enum TLV whose variant id is the id of no binding of the
\* target returns an error, and no binding that was absent is present afterwards
C12_UnknownVariantFails ==
    (op = "UnmarshalEnum" /\ arg.vid \notin BoundIds(arg.type))
        => /\ res.err.Kind \notin {"nil", "panic", "hang"}
           /\ Present(arg.type, res.v[1]) \subseteq Present(arg.type, arg.target)

\* variant 5 with a complete uint32 TLV, into a zero SimpleEnum: "unknown enum variant"
C12_Variant5Refused ==
    /\ op = "UnmarshalEnum"
    /\ arg.type = SimpleEnum
    /\ arg.target = Zero(SimpleEnum)
    /\ arg.data = <<18, 12, 5, 4, 42, 0, 0, 0>>
    /\ res.err = RelishError("ErrTypeMismatch", "unknown enum variant")
    /\ res.v = <<Zero(SimpleEnum)>>

(***************************************************************************)
(* C13: the reserved bit of the id bytes a read takes from the wire.       *)
(***************************************************************************)
ReaderOps == {"ReadArrayTLV", "ReadStructTLV", "ReadEnumTLV", "ReadMapTLV"}

\* the content the frame at the head of data declares, as far as data holds it;
\* <<>> when data holds no length prefix
DeclaredContent(data) ==
    IF PrefixValue(Drop(data, 1))[2] = 0 THEN <<>>
    ELSE Take(PayloadOf(data), Min(PrefixValue(Drop(data, 1))[1], Len(PayloadOf(data))))

\* walking the fields [id][TLV] of the Struct payload c as decodeStructInto does, a
\* field id or the type id of a field's value has bit 7 set
RECURSIVE ReservedInFields(_)
ReservedInFields(c) ==
    LET Next1(k) == k > 0 /\ ReservedInFields(Drop(c, 1 + k))
    IN  /\ Len(c) >= 1
        /\ \/ c[1] >= 128
           \/ Len(c) >= 2 /\ c[2] >= 128
           \/ Next1(TLVSize(Drop(c, 1)))

\* the variant id of the Enum content c, or the type id of the variant's value, has
\* bit 7 set
ReservedInVariant(c) ==
    /\ Len(c) >= 1
    /\ (c[1] >= 128 \/ (Len(c) >= 2 /\ c[2] >= 128))

\* the call of the state returned an error (and did not panic or loop)
Failed == res.err.Kind \notin {"nil", "panic", "hang"}

\* C13: a read fails when an id byte it takes from the wire has bit 7 set: the type
\* id of the value, a struct field id or the type id of a field's value, an enum
\* variant id or the type id of the variant's value, an array element type, a map
\* key or value type
C13_ReservedBitFails ==
    /\ (op \in ReaderOps \cup UnmarshalOps /\ Len(arg.data) >= 1 /\ arg.data[1] >= 128)
          => Failed
    /\ (op \in UnmarshalOps /\ Len(arg.data) >= 1 /\ arg.data[1] = 17
           /\ ReservedInFields(DeclaredContent(arg.data)))
          => Failed
    /\ (op \in UnmarshalOps /\ Len(arg.data) >= 1 /\ arg.data[1] = 18
           /\ ReservedInVariant(DeclaredContent(arg.data)))
          => Failed
    /\ (op = "ReadArrayTLV" /\ arg.typeID = 15 /\ Len(arg.content) >= 1
           /\ arg.content[1] >= 128)
          => res.err = errInvalidTypeID
    /\ (op = "ReadEnumTLV" /\ arg.typeID = 18 /\ Len(arg.content) >= 1
           /\ arg.content[1] >= 128)
          => res.err = errInvalidTypeID
    /\ (op = "ReadMapTLV" /\ arg.typeID = 16 /\ Len(arg.content) >= 2
           /\ (arg.content[1] >= 128 \/ arg.content[2] >= 128))
          => res.err = errInvalidTypeID

\* a Map whose value type byte is 0x80 is refused by ReadMapTLV
C13_MapValueTypeRefused ==
    /\ op = "ReadMapTLV"
    /\ arg.data = <<16, 4, 4, 128>>
    /\ res.err = errInvalidTypeID

(***************************************************************************)
(* C14: UTF-8 on encode and on decode.                                     *)
(***************************************************************************)
\* the strings held in the value v of type t, at every depth
RECURSIVE StringsIn(_, _)
StringsIn(t, v) ==
    CASE t.kind = "String" -> {v}
      [] t.kind = "Pointer" -> IF v = <<>> THEN {} ELSE StringsIn(t.elem, v[1])
      [] t.kind = "Struct" ->
            UNION {StringsIn(t.fields[i].type, v[i]) :
                     i \in {j \in 1..Len(t.fields) : ParseRelishTag(t.fields[j]).ok}}
      [] OTHER -> {}

\* the content of the String TLV tlv
StringContent(tlv) == Drop(tlv, 1 + PrefixValue(Drop(tlv, 1))[2])

IsStringField(ft) ==
    ft.kind = "String" \/ (ft.kind = "Pointer" /\ ft.elem.kind = "String")

\* the Struct payload c is a sequence of exact fields, and one of them, bound by t
\* to a string, is a String TLV whose content is not valid UTF-8
InvalidStringBound(t, c) ==
    /\ FieldsExact(c)
    /\ \E j \in 1..Len(FieldsOf(c)) :
          /\ BoundIndex(t, FieldsOf(c)[j].id) # 0
          /\ IsStringField(t.fields[BoundIndex(t, FieldsOf(c)[j].id)].type)
          /\ FieldsOf(c)[j].tlv[1] = 14
          /\ ~Utf8Valid(StringContent(FieldsOf(c)[j].tlv))

\* C14: Marshal of a value that holds a string that is not valid UTF-8 returns an
\* error and no byte; Unmarshal of a Struct one of whose bound string fields is a
\* String TLV with content that is not valid UTF-8 returns an error
C14_Utf8Enforced ==
    /\ (op = "Marshal" /\ \E str \in StringsIn(arg.type, arg.value) : ~Utf8Valid(str))
          => (res.err.Kind \notin {"nil", "panic", "hang"} /\ res.out = <<>>)
    /\ (op \in UnmarshalOps /\ Len(arg.data) >= 1 /\ arg.data[1] = 17
           /\ InvalidStringBound(arg.type, DeclaredContent(arg.data)))
          => Failed

\* field 1 of MultiField as a String TLV with its length in the 4-byte form and the
\* content FF 69: Unmarshal returns nil and the field holds two zero bytes
C14_InvalidStringAccepted ==
    /\ op = "UnmarshalDamaged"
    /\ arg.type = MultiField
    /\ arg.data = <<17, 16, 1, 14, 5, 0, 0, 0, 255, 105>>
    /\ res.err.Kind = "nil"
    /\ res.v[1][2] = <<0, 0>>

(***************************************************************************)
(* C15: Map keys with byte-equal payloads.                                 *)
(***************************************************************************)
\* the bytes an element of type t takes at the head of b inside a Map; -1 when b
\* holds no such element
ElemSize(t, b) ==
    IF FixedSize(t)[2] THEN FixedSize(t)[1]
    ELSE IF PrefixValue(b)[2] = 0 THEN -1
    ELSE PrefixValue(b)[2] + PrefixValue(b)[1]

\* the key payloads of the pairs b of a Map with key type kt and value type vt, up
\* to the first pair that b does not hold whole
RECURSIVE KeysOf(_, _, _)
KeysOf(kt, vt, b) ==
    LET Value(ks, vs) ==
            IF vs < 0 \/ ks + vs > Len(b) \/ ks + vs = 0 THEN <<>>
            ELSE <<Take(b, ks)>> \o KeysOf(kt, vt, Drop(b, ks + vs))
        Key(ks) ==
            IF ks < 0 \/ ks > Len(b) THEN <<>>
            ELSE Value(ks, ElemSize(vt, Drop(b, ks)))
    IN  IF Len(b) = 0 THEN <<>> ELSE Key(ElemSize(kt, b))

\* the Map content c ([key type][value type][pairs]) holds two keys with the same
\* payload
RepeatedKey(c) ==
    /\ Len(c) >= 2
    /\ c[1] < 128
    /\ c[2] < 128
    /\ \E i, j \in 1..Len(KeysOf(c[1], c[2], Drop(c, 2))) :
          i < j /\ KeysOf(c[1], c[2], Drop(c, 2))[i] = KeysOf(c[1], c[2], Drop(c, 2))[j]

\* two of the pairs have keys whose TLVs are the same bytes after the type byte
RepeatedKeyIn(pairs) ==
    \E i, j \in 1..Len(pairs) :
        /\ i < j
        /\ Drop(encodeValueTLV(pairs[i].k).out, 1) = Drop(encodeValueTLV(pairs[j].k).out, 1)

\* the Struct payload c is a sequence of exact fields, one of which is a Map TLV
\* with a repeated key
RepeatedKeyField(c) ==
    /\ FieldsExact(c)
    /\ \E j \in 1..Len(FieldsOf(c)) :
          /\ FieldsOf(c)[j].tlv[1] = 16
          /\ RepeatedKey(DeclaredContent(FieldsOf(c)[j].tlv))

\* C15: a Map with two keys of byte-equal payload is refused by the encoder, which
\* writes no Map TLV with a repeated key, and refused by every read of it: by
\* ReadMapTLV and by Unmarshal of a Struct that carries it in a field
C15_RepeatedKeyRefused ==
    /\ (op = "encodeValueTLV" /\ RepeatedKeyIn(arg.pairs))
          => (res.err.Kind \notin {"nil", "panic", "hang"} /\ res.out = <<>>)
    /\ (op = "encodeValueTLV" /\ res.err.Kind = "nil")
          => ~RepeatedKey(DeclaredContent(res.out))
    /\ (op = "ReadMapTLV" /\ arg.typeID = 16 /\ RepeatedKey(arg.content)) => Failed
    /\ (op \in UnmarshalOps /\ Len(arg.data) >= 1 /\ arg.data[1] = 17
           /\ RepeatedKeyField(DeclaredContent(arg.data)))
          => Failed

\* ReadMapTLV returns the pairs 07 FF 07 00 of a Map from u8 to bool, key 7 twice
C15_RepeatedKeyRead ==
    /\ op = "ReadMapTLV"
    /\ arg.data = <<16, 12, 2, 1, 7, 255, 7, 0>>
    /\ res.err.Kind = "nil"
    /\ res.ids = <<2, 1>>
    /\ res.payload = <<7, 255, 7, 0>>

(***************************************************************************)
(* C16: scratch buffers of parallel encoders and nested composites.        *)
(***************************************************************************)
\* the active frames that hold buffer b, as <<encoder, depth>>
Holders(b) ==
    {gd \in Encoders \X (1..MaxDepth) :
       gd[2] <= Len(frames[gd[1]]) /\ frames[gd[1]][gd[2]].buf = b}

\* C16: every buffer that was made is in one place only: it lies in the pool once,
\* or one active frame holds it, or the collector has taken it; a buffer holds the
\* writes of the frame that holds it and no other; every writer that has returned
\* has put its buffer back, on the success path and on every error path
C16_BufferOwnership ==
    /\ \A b \in Buffers :
          bufPool[b] + Cardinality(Holders(b)) + (IF b \in collected THEN 1 ELSE 0)
              = (IF b <= made THEN 1 ELSE 0)
    /\ \A g \in Encoders : \A d \in 1..Len(frames[g]) :
          staged[frames[g][d].buf] = frames[g][d].wrote
    /\ \A g \in Encoders :
          /\ returned[g] + Len(frames[g]) = acquired[g]
          /\ status[g] \in {"ok", "failed"} => (frames[g] = <<>> /\ returned[g] = acquired[g])

\* encoder 1 has failed after its writers acquired and returned two buffers, while
\* encoder 2 is two composites deep and holds two buffers
C16_FailedEncoderBesideNested ==
    /\ status[1] = "failed"
    /\ acquired[1] = 2
    /\ returned[1] = 2
    /\ Len(frames[2]) = 2
    /\ frames[2][1].buf # frames[2][2].buf
    /\ made = 2

(***************************************************************************)
(* C17: Enum or Struct framing on encode.                                  *)
(***************************************************************************)
\* the bindings of t: the fields whose tag carries a field id
Bindings(t) == {i \in 1..Len(t.fields) : ParseRelishTag(t.fields[i]).ok}

\* the optional bindings of t that are present in v
PresentBindings(t, v) ==
    {i \in Bindings(t) : /\ ParseRelishTag(t.fields[i]).optional
                         /\ t.fields[i].type.kind = "Pointer"
                         /\ v[i] # <<>>}

\* t has a binding, every binding of t is optional, and one binding is present in v
EnumFramed(t, v) ==
    /\ Bindings(t) # {}
    /\ \A i \in Bindings(t) : ParseRelishTag(t.fields[i]).optional
    /\ Cardinality(PresentBindings(t, v)) = 1

EnumLike(t) ==
    /\ Bindings(t) # {}
    /\ \A i \in Bindings(t) : ParseRelishTag(t.fields[i]).optional

HasRequiredBinding(t) == \E i \in Bindings(t) : ~ParseRelishTag(t.fields[i]).optional

\* C18: Unmarshal of an Enum TLV into a type with a binding that is not optional,
\* and of a Struct TLV into a type all of whose bindings are optional, returns an
\* error of kind ErrTypeMismatch
C18_ShapeMismatchRefused ==
    /\ (op \in UnmarshalOps /\ Len(arg.data) >= 1 /\ arg.data[1] = 18
           /\ HasRequiredBinding(arg.type))
          => res.err.Kind = "ErrTypeMismatch"
    /\ (op \in UnmarshalOps /\ Len(arg.data) >= 1 /\ arg.data[1] = 17
           /\ EnumLike(arg.type))
          => res.err.Kind = "ErrTypeMismatch"

\* an Enum TLV of variant 1 holding the string "hi", into OptString, whose binding 0
\* is not optional: Unmarshal returns nil and sets the optional string
C18_EnumIntoStructLike ==
    /\ op = "UnmarshalDamaged"
    /\ arg.type = OptString
    /\ arg.data = <<18, 10, 1, 14, 4, 104, 105>>
    /\ res.err.Kind = "nil"
    /\ res.v[1] = <<U32(0), <<<<104, 105>>>>>>

(***************************************************************************)
(* C19: the order of the field ids the encoder writes.                     *)
(***************************************************************************)
\* in the TLV b, whose frames are exact, the field ids of every Struct, at every
\* depth, are strictly increasing
RECURSIVE IdsIncreasing(_)
IdsIncreasing(b) ==
    LET Fields(fs) ==
            /\ \A j \in 2..Len(fs) : fs[j - 1].id < fs[j].id
            /\ \A j \in 1..Len(fs) : IdsIncreasing(fs[j].tlv)
    IN  CASE b[1] = 17 -> Fields(FieldsOf(DeclaredContent(b)))
          [] b[1] = 18 -> IdsIncreasing(Drop(DeclaredContent(b), 1))
          [] OTHER -> TRUE

\* C19: in the bytes Marshal returns the field ids of every Struct TLV are strictly
\* increasing, and Unmarshal of these bytes does not fail the field-order check
C19_EncoderFieldOrder ==
    /\ (op = "Marshal" /\ res.err.Kind = "nil") => IdsIncreasing(res.out)
    /\ op = "RoundTrip" => res.err.Kind # "ErrFieldOrder"

\* the bytes Marshal returned for DupIds{42, 10} are refused by the decoder's
\* field-order check
C19_OwnOutputRefused ==
    /\ op = "RoundTrip"
    /\ arg.type = DupIds
    /\ arg.data = <<17, 24, 0, 4, 42, 0, 0, 0, 0, 4, 10, 0, 0, 0>>
    /\ res.err = RelishError("ErrFieldOrder", "field ids not strictly increasing")

(***************************************************************************)
(* C20: omit_empty.                                                        *)
(***************************************************************************)
\* the zero of a declared scalar type: false, 0, the empty string, nil
DeclaredZero(t) ==
    CASE t.kind = "Bool" -> FALSE
      [] t.kind = "Uint32" -> [hi |-> 0, lo |-> 0]
      [] t.kind = "String" -> <<>>
      [] t.kind = "Pointer" -> <<>>

\* the value TLV of a scalar, or of what a pointer to a scalar points to
RECURSIVE ValueTLV(_, _)
ValueTLV(t, v) ==
    CASE t.kind = "Bool" -> <<1, IF v THEN 255 ELSE 0>>
      [] t.kind = "Uint32" ->
           <<4, v.lo % 256, v.lo \div 256, v.hi % 256, v.hi \div 256>>
      [] t.kind = "String" ->
           IF Len(v) < 128 THEN <<14, 2 * Len(v)>> \o v
           ELSE <<14, (2 * (Len(v) % 128)) + 1, (Len(v) \div 128) % 256,
                  (Len(v) \div 32768) % 256, Len(v) \div 8388608>> \o v
      [] t.kind = "Pointer" -> ValueTLV(t.elem, v[1])

\* the bindings of t flagged omitempty
OmitEmptyBindings(t) == {i \in Bindings(t) : ParseRelishTag(t.fields[i]).omitempty}

\* the positions of the Struct TLV out whose field id is id
WrittenAt(out, id) ==
    {j \in 1..Len(FieldsOf(PayloadOf(out))) : FieldsOf(PayloadOf(out))[j].id = id}

\* C20: in the Struct TLV Marshal returns, a binding flagged omit_empty does not
\* appear when its value is the zero of its declared type (false, 0, the empty
\* string, nil), and appears once, as its field id followed by the TLV of its value,
\* for every other value
C20_OmitEmpty ==
    (op = "Marshal" /\ res.err.Kind = "nil" /\ res.out[1] = 17)
        => \A i \in OmitEmptyBindings(arg.type) :
              IF arg.value[i] = DeclaredZero(arg.type.fields[i].type)
              THEN WrittenAt(res.out, ParseRelishTag(arg.type.fields[i]).id) = {}
              ELSE /\ Cardinality(WrittenAt(res.out, ParseRelishTag(arg.type.fields[i]).id)) = 1
                   /\ \A j \in WrittenAt(res.out, ParseRelishTag(arg.type.fields[i]).id) :
                         FieldsOf(PayloadOf(res.out))[j].tlv
                             = ValueTLV(arg.type.fields[i].type, arg.value[i])

\* WithOmit{0, "", true, &0}: the zero number and the empty string are left out, and
\* true and the pointer to zero are written as fields 2 and 3
C20_ZeroLeftOutPointerToZeroWritten ==
    /\ op = "Marshal"
    /\ arg.type = WithOmit
    /\ arg.value = <<U32(0), <<>>, TRUE, <<U32(0)>>>>
    /\ res.err.Kind = "nil"
    /\ res.out = <<17, 18, 2, 1, 255, 3, 4, 0, 0, 0, 0>>

(***************************************************************************)
(* C21: the type table on the skip path.                                   *)
(***************************************************************************)
\* the 20 type ids of the type table
DefinedTypeIDs == 0..19

\* C21: readTLVBytes returns an error for a type byte with bit 7 set and for a type
\* id outside 0x00..0x13; so does Unmarshal of a Struct whose one field, bound or
\* not, has a value TLV with such a type byte
C21_SkipTypeTable ==
    /\ (op = "readTLVBytes" /\ arg.data[1] \notin DefinedTypeIDs) => res.err.Kind # "nil"
    /\ (op = "UnmarshalField" /\ arg.field[1] \notin DefinedTypeIDs) => res.err.Kind # "nil"

\* field 5, which Simple does not bind, with the type byte 0x14 and a length prefix of
\* one content byte: Unmarshal returns nil
C21_Type20Skipped ==
    /\ op = "UnmarshalField"
    /\ arg.type = Simple
    /\ arg.data = <<17, 8, 5, 20, 2, 7>>
    /\ res.err.Kind = "nil"
    /\ res.v = <<<<U32(0)>>>>

(***************************************************************************)
(* C22: the error kind for an id byte with the reserved bit set.           *)
(***************************************************************************)
\* data holds a frame of type ty with all the content it declares, at least one
\* byte, and the first content byte has bit 7 set
LeadingIdReserved(data, ty) ==
    /\ Len(data) >= 2
    /\ data[1] = ty
    /\ PrefixValue(Drop(data, 1))[2] > 0
    /\ PrefixValue(Drop(data, 1))[1] >= 1
    /\ Len(PayloadOf(data)) >= PrefixValue(Drop(data, 1))[1]
    /\ PayloadOf(data)[1] >= 128

\* C22: Unmarshal of a Struct whose first field id has bit 7 set, and of an Enum
\* whose variant id has bit 7 set, returns an error of kind ErrInvalidFieldID
C22_ReservedIdKind ==
    /\ (op \in UnmarshalOps /\ LeadingIdReserved(arg.data, 17))
          => res.err.Kind = "ErrInvalidFieldID"
    /\ (op \in UnmarshalOps /\ LeadingIdReserved(arg.data, 18))
          => res.err.Kind = "ErrInvalidFieldID"

\* an Enum with the variant id 0x80 around the u32 42, into SimpleEnum: the error is
\* of kind ErrTypeMismatch
C22_Variant128TypeMismatch ==
    /\ op = "UnmarshalEnum"
    /\ arg.type = SimpleEnum
    /\ arg.data = <<18, 12, 128, 4, 42, 0, 0, 0>>
    /\ res.err = RelishError("ErrTypeMismatch", "unknown enum variant")

(***************************************************************************)
(* C23: ReadFull on a reader of any behaviour.                             *)
(***************************************************************************)
\* what ReadFull has returned, against what the reader did: nil exactly when len(buf)
\* bytes are filled, also when the last Read gave the last bytes with an error; the
\* reader's error when it came before the buffer was full; io.ErrUnexpectedEOF when
\* the last Read gave no byte and no error; and while the loop runs, every Read so
\* far gave a byte and no error
ReadFullReturn ==
    op = "ReadFull" =>
       /\ res.off <= arg.k
       /\ pc = "reading" => (res.off < arg.k /\ res.err.Kind = "nil" /\ res.last.err.Kind = "nil")
       /\ pc = "done" =>
             /\ res.err.Kind = "nil" <=> res.off = arg.k
             /\ (res.off < arg.k /\ res.last.err.Kind # "nil") => res.err = res.last.err
             /\ (res.off < arg.k /\ res.last.err.Kind = "nil")
                   => (res.last.n = 0 /\ res.err = ioErrUnexpectedEOF)

\* C23: for every reader, ReadFull returns (the loop ends), with nil once len(buf)
\* bytes are filled, with the reader's error when it comes before that, and with
\* io.ErrUnexpectedEOF as soon as a Read gives no byte and no error
C23_ReadFullTerminates ==
    /\ []ReadFullReturn
    /\ (op = "ReadFull" /\ pc = "reading") ~> (pc = "done")

\* a buffer of 3 bytes: the first Read gives 1 byte, the second gives the last 2
\* together with an error, and ReadFull returns nil
C23_LastBytesWithError ==
    /\ op = "ReadFull"
    /\ pc = "done"
    /\ arg.k = 3
    /\ arg.script = <<[n |-> 1, err |-> NoErr], [n |-> 2, err |-> ioEOF]>>
    /\ res.off = 3
    /\ res.err = NoErr

(***************************************************************************)
(* C24: truncated input.                                                   *)
(***************************************************************************)
\* data is a strict, non-empty prefix of a Struct or Enum TLV whose frame is exact
Truncated(data) ==
    \E w \in SoundWires : Len(data) >= 1 /\ Len(data) < Len(w) /\ data = Take(w, Len(data))

\* the error says that the input ended inside a value
IsUnexpectedEOF(e) == e.Kind = "ErrUnexpectedEOF" \/ e = ioErrUnexpectedEOF

\* C24: Unmarshal of a strict, non-empty prefix of a valid TLV returns an error that
\* says the input ended inside a value: not nil, and not io.EOF, the clean end of a
\* stream
C24_TruncatedIsUnexpectedEOF ==
    (op = "UnmarshalDamaged" /\ Truncated(arg.data)) => IsUnexpectedEOF(res.err)

\* a Struct that declares 6 content bytes and ends after 3 of them: io.EOF
C24_CutInsideContentIsEOF ==
    /\ op = "UnmarshalDamaged"
    /\ arg.type = MultiField
    /\ arg.data = <<17, 12, 0, 4, 42>>
    /\ res.err = ioEOF

(***************************************************************************)
(* C25: strict Bool.                                                       *)
(***************************************************************************)
\* C25: ReadBoolTLV returns false for the content byte 0x00 and true for 0xFF, and
\* an error for every other content byte; WriteBoolTLV writes the type byte 0x01 and
\* the content byte 0x00 for false, 0xFF for true
C25_StrictBool ==
    /\ op = "ReadBoolTLV" =>
          CASE arg.content = 0 -> res.err.Kind = "nil" /\ res.v = FALSE /\ res.r = <<>>
            [] arg.content = 255 -> res.err.Kind = "nil" /\ res.v = TRUE /\ res.r = <<>>
            [] OTHER -> res.err.Kind \notin {"nil", "panic", "hang"}
    /\ op = "WriteBoolTLV" =>
          /\ res.err.Kind = "nil"
          /\ res.out = <<1, IF arg.v THEN 255 ELSE 0>>

\* the content byte 0x01 is refused
C25_OneRefused ==
    /\ op = "ReadBoolTLV"
    /\ arg.data = <<1, 1>>
    /\ res.err = PlainError("invalid bool value")

(***************************************************************************)
(* C26, C27: the struct literals of the text front-end.                    *)
(***************************************************************************)
\* the fields [id, tlv] that EncodeBytes wrote for the entries of the call: those of
\* the top-level Struct, or those of the Struct that is its field 0
WrittenFields ==
    IF arg.nested THEN FieldsOf(PayloadOf(FieldsOf(PayloadOf(res.out))[1].tlv))
    ELSE FieldsOf(PayloadOf(res.out))

\* the entries of the literal that have a value
Valued(entries) == {i \in 1..Len(entries) : ~entries[i].omit}

\* the value TLV of true and of 7u32
LiteralTLV(v) == IF v.val = "valBool" THEN <<1, 255>> ELSE <<4, 7, 0, 0, 0>>

\* two entries of the literal have the same id
RepeatedId(entries) ==
    \E i \in 1..Len(entries) : \E j \in 1..Len(entries) :
       i # j /\ entries[i].id = entries[j].id

\* C26: for a struct literal, top-level or nested, with ids in 0..127: EncodeBytes
\* returns an error when two entries have the same id; otherwise it writes one field
\* for every entry that has a value, with the ids strictly increasing whatever the
\* order of the entries
C26_StructCanonical ==
    (op = "EncodeBytes" /\ \A i \in 1..Len(arg.fields) : arg.fields[i].id \in 0..127)
        => IF RepeatedId(arg.fields) THEN res.err.Kind # "nil"
           ELSE /\ res.err.Kind = "nil"
                /\ \A j \in 2..Len(WrittenFields) :
                      WrittenFields[j - 1].id < WrittenFields[j].id
                /\ Len(WrittenFields) = Cardinality(Valued(arg.fields))
                /\ \A i \in Valued(arg.fields) : \E j \in 1..Len(WrittenFields) :
                      /\ WrittenFields[j].id = arg.fields[i].id
                      /\ WrittenFields[j].tlv = LiteralTLV(arg.fields[i].val)

\* "struct { 0: none; 0: true }" is encoded, with field 0 = true
C26_NoneBesideValueAccepted ==
    /\ op = "EncodeBytes"
    /\ ~arg.nested
    /\ arg.fields = <<field(0, valNone, TRUE), field(0, valBool(TRUE), FALSE)>>
    /\ res.err.Kind = "nil"
    /\ res.out = <<17, 6, 0, 1, 255>>

\* C27: EncodeBytes returns an error for a struct literal, top-level or nested, with
\* an entry whose id is outside 0..127; and every field id byte it writes is the id
\* of an entry of the literal that has a value
C27_FieldIdRange ==
    op = "EncodeBytes" =>
       /\ (\E i \in 1..Len(arg.fields) : arg.fields[i].id \notin 0..127)
             => res.err.Kind # "nil"
       /\ res.err.Kind = "nil" =>
             \A j \in 1..Len(WrittenFields) : \E i \in Valued(arg.fields) :
                arg.fields[i].id = WrittenFields[j].id

\* "struct { 0: struct { 256: true } }" is encoded, and the nested field id byte is 0
C27_NestedId256Truncated ==
    /\ op = "EncodeBytes"
    /\ arg.nested
    /\ arg.fields = <<field(256, valBool(TRUE), FALSE)>>
    /\ res.err.Kind = "nil"
    /\ res.out = <<17, 12, 0, 17, 6, 0, 1, 255>>

(***************************************************************************)
(* C28: the bytes readTLVBytes hands on.                                   *)
(***************************************************************************)
\* e is a String TLV and nothing more: [0x0E][prefix][as many bytes as it declares]
WholeString(e) ==
    /\ Len(e) >= 2
    /\ e[1] = 14
    /\ PrefixValue(Drop(e, 1))[2] > 0
    /\ Len(e) = 1 + PrefixValue(Drop(e, 1))[2] + PrefixValue(Drop(e, 1))[1]

\* C28: the TLV readTLVBytes returns is the bytes it took from the reader, whatever
\* the form of the length prefix; and a String TLV under field 1 of OptString puts
\* its content into the field, whatever the form of its prefix
C28_ExtractionFaithful ==
    /\ (op = "readTLVBytes" /\ res.err.Kind = "nil") => res.tlv \o res.r = arg.data
    /\ (op = "UnmarshalField" /\ arg.type = OptString /\ arg.id = 1 /\ WholeString(arg.field))
          => /\ res.err.Kind = "nil"
             /\ res.v = <<<<U32(0), <<PayloadOf(arg.field)>>>>>>

\* a String TLV of two bytes with its length in the 4-byte form: the TLV handed on
\* has the prefix 04 00 00 00, which declares two bytes after a 1-byte prefix
C28_LongFormPrefixRewritten ==
    /\ op = "readTLVBytes"
    /\ arg.data = <<14, 5, 0, 0, 0, 7, 7>>
    /\ res.err.Kind = "nil"
    /\ res.tlv = <<14, 4, 0, 0, 0, 7, 7>>
    /\ res.r = <<>>

(***************************************************************************)
(* C29: one Decoder over a stream, one Encoder over a sink.                *)
(***************************************************************************)
\* the encodings of the values handed to Encode so far, each as Marshal returns it
Encodings == [i \in 1..Len(arg.values) |-> Marshal(arg.values[i].type, arg.values[i].value).out]

\* C29: while the calls on a Decoder succeed, call i leaves in the source exactly
\* the TLVs after the i-th and sets its target to what the i-th TLV decodes to on
\* its own; while the calls on an Encoder succeed, the sink holds the encodings of
\* the values one after another
C29_StreamingConsumption ==
    /\ op = "Decode" =>
          \A i \in 1..Len(res.calls) :
             (\A j \in 1..i : res.calls[j].err.Kind = "nil")
                => /\ i <= Len(arg.stream)
                   /\ res.calls[i].r = Concat(Drop(arg.stream, i))
                   /\ res.calls[i].v =
                         Unmarshal(arg.stream[i], PtrTo(arg.types[i]),
                                   <<Zero(arg.types[i])>>).v
    /\ op = "Encode" =>
          ((\A j \in 1..Len(res.errs) : res.errs[j].Kind = "nil")
              => res.w = Concat(Encodings))

\* a uint32 TLV followed by a Struct TLV: the first Decode takes five bytes and
\* gives 42, the second gives the struct and leaves the source empty
C29_Uint32ThenStruct ==
    /\ op = "Decode"
    /\ arg.stream = <<<<4, 42, 0, 0, 0>>, <<17, 12, 0, 4, 42, 0, 0, 0>>>>
    /\ arg.types = <<TUint32, Simple>>
    /\ Len(res.calls) = 2
    /\ res.calls[1] = [err |-> NoErr, v |-> <<U32(42)>>, r |-> <<17, 12, 0, 4, 42, 0, 0, 0>>]
    /\ res.calls[2] = [err |-> NoErr, v |-> <<<<U32(42)>>>>, r |-> <<>>]
    /\ res.r = <<>>

(***************************************************************************)
(* C30: the target after a failed Unmarshal.                               *)
(***************************************************************************)
\* C30: an Unmarshal into a struct or enum target that returns an error leaves the
\* target as it was before the call
C30_DecodeAtomic ==
    (op \in {"UnmarshalStruct", "UnmarshalEnum"} /\ res.err.Kind # "nil")
        => res.v = <<arg.target>>

\* field 0 twice on the wire into a zero MultiField: the call fails with FieldOrder
\* at the second field, and the 42 of the first stays in the target
C30_FirstFieldKept ==
    /\ op = "UnmarshalStruct"
    /\ arg.type = MultiField
    /\ arg.target = Zero(MultiField)
    /\ arg.data = <<17, 24, 0, 4, 42, 0, 0, 0, 0, 4, 42, 0, 0, 0>>
    /\ res.err = RelishError("ErrFieldOrder", "field ids not strictly increasing")
    /\ res.v = <<<<U32(42), <<>>, FALSE>>>>

====
